---- MODULE Spec2Model ----
(***************************************************************************)
(* Model of the AutoPoster bot (davranaff/assistant): the Post aggregate,  *)
(* the content generator, the post repository and the four use cases.      *)
(*                                                                         *)
(* Conventions.  A Python str is a sequence of one-character strings.  A   *)
(* call that may raise returns a record [ok, val, err]: ok = TRUE carries   *)
(* the value, ok = FALSE carries the exception message.  datetime fields   *)
(* (created_at, updated_at, published_at) carry no information that any    *)
(* operation reads; published_at is kept as a flag "set"/"None".           *)
(***************************************************************************)
EXTENDS Integers, Sequences, FiniteSets, TLC

VARIABLES
    post,        \* SpecPost: the Post object under test
    last,        \* SpecPost: the last operation applied to post and its outcome
    leftDraft,   \* SpecPost: the content post had when its status left Draft
    gen,         \* SpecGen: the generator call under test: inputs and outcome
    db_posts,    \* SpecUC: the committed rows of table posts, by id
    db_pubs,     \* SpecUC: the committed rows of table publications
    inv,         \* SpecUC: the use-case invocations in flight, by task
    publisher,   \* SpecUC: the Publisher implementation PublishPostUseCase was given
    started,     \* SpecUC: the number of invocations started so far
    fan,         \* SpecFan: one call of MultiPlatformPublisher.publish
    built,       \* SpecContent: one construction of a PostContent
    repo,        \* SpecRepo: the last repository call and what was saved and deleted
    loop,        \* SpecLoop: one run of the loop of MultiPlatformPublisher.publish
    bot          \* SpecBot: the TelegramBotHandlers instance and the updates handled

postVars == <<post, last, leftDraft>>
genVars == <<gen>>
dbVars == <<db_posts, db_pubs>>
ucVars == <<db_posts, db_pubs, inv, publisher, started>>
fanVars == <<fan>>
builtVars == <<built>>
repoVars == <<repo>>
loopVars == <<loop>>
botVars == <<bot>>
vars == <<post, last, leftDraft, gen, db_posts, db_pubs, inv, publisher, started, fan, built,
          repo, loop, bot>>

None == "None"

----------------------------------------------------------------------------
(* Strings *)

\* c * n
Rep(c, n) == [i \in 1..n |-> c]

Whitespace == {" ", "\n", "\t"}

Min(S) == CHOOSE x \in S : \A y \in S : x <= y
Max(S) == CHOOSE x \in S : \A y \in S : x >= y

\* str.strip(): what lies between the first and the last character that is not
\* whitespace
Strip(s) ==
    LET kept == {i \in 1..Len(s) : s[i] \notin Whitespace} IN
    IF kept = {} THEN <<>> ELSE SubSeq(s, Min(kept), Max(kept))

----------------------------------------------------------------------------
(* Results of calls that may raise *)

NoVal == [none |-> TRUE]
Ok(v) == [ok |-> TRUE, val |-> v, err |-> None]
Raise(e) == [ok |-> FALSE, val |-> NoVal, err |-> e]

----------------------------------------------------------------------------
(* domain/models/post.py *)

DRAFT == "draft"
CONFIRMED == "confirmed"
PUBLISHED == "published"
FAILED == "failed"
PostStatus == {DRAFT, CONFIRMED, PUBLISHED, FAILED}

MEDIUM == "medium"
DEV_TO == "dev_to"
REDDIT == "reddit"
Platform == {MEDIUM, DEV_TO, REDDIT}

MaxTitleLen == 200

\* the place of a PostContent where there is none
NoContent == [title |-> <<>>, body |-> <<>>, topic |-> <<>>, tags |-> <<>>]

\* PostContent with the length bound off by one
PostContent_OffByOne(title, body, topic, tags) ==
    IF Strip(title) = <<>> THEN Raise("Title cannot be empty")
    ELSE IF Strip(body) = <<>> THEN Raise("Body cannot be empty")
    ELSE IF Len(title) >= MaxTitleLen THEN Raise("Title too long")
    ELSE Ok([title |-> title, body |-> body, topic |-> topic, tags |-> tags])

\* PostContent(title, body, topic, tags): the dataclass constructor with
\* __post_init__
PostContent(title, body, topic, tags) ==
    IF Strip(title) = <<>> THEN Raise("Title cannot be empty")
    ELSE IF Strip(body) = <<>> THEN Raise("Body cannot be empty")
    ELSE IF Len(title) > MaxTitleLen THEN Raise("Title too long")
    ELSE Ok([title |-> title, body |-> body, topic |-> topic, tags |-> tags])

PublicationResult(platform, success, platform_post_id, url, error_message, published_at) ==
    [platform |-> platform, success |-> success, platform_post_id |-> platform_post_id,
     url |-> url, error_message |-> error_message, published_at |-> published_at]

\* Post.__init__ with the default status
NewPost(id, content, user_id) ==
    [id |-> id, content |-> content, user_id |-> user_id, status |-> DRAFT,
     publications |-> <<>>]

\* confirm with its guard left out
confirm_Unguarded(p) == Ok([p EXCEPT !.status = CONFIRMED])

\* Post.confirm
confirm(p) ==
    IF p.status # DRAFT THEN Raise("Only draft posts can be confirmed")
    ELSE Ok([p EXCEPT !.status = CONFIRMED])

\* Post.add_publication_result
add_publication_result(p, result) ==
    Ok([p EXCEPT !.publications = Append(@, result)])

\* Post.get_successful_publications
get_successful_publications(p) ==
    SelectSeq(p.publications, LAMBDA r : r.success)

\* mark_as_published without the check for a successful publication
mark_as_published_Unchecked(p) ==
    IF p.status # CONFIRMED THEN Raise("Only confirmed posts can be published")
    ELSE Ok([p EXCEPT !.status = PUBLISHED])

\* Post.mark_as_published
mark_as_published(p) ==
    IF p.status # CONFIRMED THEN Raise("Only confirmed posts can be published")
    ELSE IF get_successful_publications(p) = <<>>
    THEN Raise("No successful publications found")
    ELSE Ok([p EXCEPT !.status = PUBLISHED])

\* Post.mark_as_failed
mark_as_failed(p, error_message) ==
    Ok([p EXCEPT !.status = FAILED])

\* update_content with its guard left out
update_content_Unguarded(p, new_content) == Ok([p EXCEPT !.content = new_content])

\* Post.update_content
update_content(p, new_content) ==
    IF p.status # DRAFT THEN Raise("Only draft posts can be updated")
    ELSE Ok([p EXCEPT !.content = new_content])

----------------------------------------------------------------------------
(* infrastructure/services/openai_content_generator.py *)

S_TitleMarker ==
    <<"T", "I", "T", "L", "E", ":">>

S_ContentMarker ==
    <<"C", "O", "N", "T", "E", "N", "T", ":">>

S_GeneratedArticle ==
    <<"G", "e", "n", "e", "r", "a", "t", "e", "d", " ", "a", "r", "t", "i",
      "c", "l", "e">>

S_ContentLater ==
    <<"C", "o", "n", "t", "e", "n", "t", " ", "w", "i", "l", "l", " ", "b",
      "e", " ", "a", "d", "d", "e", "d", " ", "l", "a", "t", "e", "r">>

S_ArticleOnTopic ==
    <<"A", "r", "t", "i", "c", "l", "e", " ", "o", "n", " ", "t", "o", "p",
      "i", "c", ":", " ">>

S_Hash ==
    <<"#", " ">>

S_FallbackBodyMid ==
    <<"\n", "\n", "A", "r", "t", "i", "c", "l", "e", " ", "o", "n", " ",
      "t", "o", "p", "i", "c", " ", "'">>

S_FallbackBodyEnd ==
    <<"'", " ", "w", "i", "l", "l", " ", "b", "e", " ", "c", "r", "e", "a",
      "t", "e", "d", " ", "l", "a", "t", "e", "r", ".">>

S_UpdatedArticle ==
    <<"U", "p", "d", "a", "t", "e", "d", " ", "a", "r", "t", "i", "c", "l",
      "e", ":", " ">>

S_HashUpdatedArticle ==
    <<"#", " ", "U", "p", "d", "a", "t", "e", "d", " ", "a", "r", "t", "i",
      "c", "l", "e", ":", " ">>

S_NewLines ==
    <<"\n", "\n">>

\* the Cyrillic markers, one atom per code point
S_TitleMarkerRu ==
    <<"U+0417", "U+0410", "U+0413", "U+041E", "U+041B", "U+041E", "U+0412",
      "U+041E", "U+041A", ":">>

S_ContentMarkerRu ==
    <<"U+041A", "U+041E", "U+041D", "U+0422", "U+0415", "U+041D", "U+0422", ":">>

\* str.startswith
StartsWith(s, prefix) ==
    Len(s) >= Len(prefix) /\ SubSeq(s, 1, Len(prefix)) = prefix

\* the places where old occurs in s
Occurrences(s, old) ==
    {i \in 1..(Len(s) - Len(old) + 1) : SubSeq(s, i, i + Len(old) - 1) = old}

\* str.replace(old, ""): the occurrences of old are removed from left to right
RECURSIVE Remove(_, _)
Remove(s, old) ==
    IF Occurrences(s, old) = {} THEN s
    ELSE LET i == Min(Occurrences(s, old)) IN
         SubSeq(s, 1, i - 1) \o Remove(SubSeq(s, i + Len(old), Len(s)), old)

\* str.split('\n')
RECURSIVE SplitLines(_)
SplitLines(s) ==
    IF Occurrences(s, <<"\n">>) = {} THEN <<s>>
    ELSE LET i == Min(Occurrences(s, <<"\n">>)) IN
         <<SubSeq(s, 1, i - 1)>> \o SplitLines(SubSeq(s, i + 1, Len(s)))

\* the loop of _parse_response over lines[i..], with its three locals
RECURSIVE ParseLines(_, _, _, _, _)
ParseLines(lines, i, title, body, capturing_content) ==
    IF i > Len(lines) THEN [title |-> title, body |-> body]
    ELSE LET line == lines[i] IN
         IF StartsWith(line, S_TitleMarker) \/ StartsWith(line, S_TitleMarkerRu)
         THEN ParseLines(lines, i + 1,
                         Strip(Remove(Remove(line, S_TitleMarker), S_TitleMarkerRu)),
                         body, capturing_content)
         ELSE IF StartsWith(line, S_ContentMarker) \/ StartsWith(line, S_ContentMarkerRu)
         THEN ParseLines(lines, i + 1, title, body, TRUE)
         ELSE IF capturing_content
         THEN ParseLines(lines, i + 1, title, body \o line \o <<"\n">>, capturing_content)
         ELSE ParseLines(lines, i + 1, title, body, capturing_content)

\* OpenAIContentGenerator._parse_response
_parse_response(content) ==
    LET p == ParseLines(SplitLines(content), 1, <<>>, <<>>, FALSE) IN
    [title |-> IF p.title # <<>> THEN p.title ELSE S_GeneratedArticle,
     body |-> IF Strip(p.body) # <<>> THEN Strip(p.body) ELSE S_ContentLater]

\* What the Together call of one request does: it raises, or it answers with a
\* message whose content is a text, or with one whose content is None.
BackendError == [kind |-> "error", content |-> <<>>]
BackendNone == [kind |-> "none", content |-> <<>>]
BackendText(content) == [kind |-> "text", content |-> content]

\* Optional[List[str]]
NoTags == [some |-> FALSE, v |-> <<>>]
SomeTags(v) == [some |-> TRUE, v |-> v]
\* tags or []
TagsOrEmpty(tags) == IF tags.some THEN tags.v ELSE <<>>

\* the try block of generate_content and of regenerate_content: the backend
\* call, _parse_response and the PostContent constructor
GenerateTry(backend, topic, tags) ==
    IF backend.kind = "error" THEN Raise("backend error")
    ELSE IF backend.kind = "none"
    THEN Raise("'NoneType' object has no attribute 'split'")
    ELSE LET p == _parse_response(backend.content) IN
         PostContent(p.title, p.body, topic, tags)

\* OpenAIContentGenerator.generate_content
generate_content(topic, tags, backend) ==
    LET r == GenerateTry(backend, topic, TagsOrEmpty(tags)) IN
    IF r.ok THEN r
    ELSE PostContent(S_ArticleOnTopic \o topic,
                     S_Hash \o topic \o S_FallbackBodyMid \o topic \o S_FallbackBodyEnd,
                     topic, TagsOrEmpty(tags))

\* regenerate_content with the tags of the previous content dropped
regenerate_content_NoTags(previous_content, backend) ==
    LET r == GenerateTry(backend, previous_content.topic, <<>>) IN
    IF r.ok THEN r
    ELSE PostContent(S_UpdatedArticle \o previous_content.topic,
                     S_HashUpdatedArticle \o previous_content.topic \o S_NewLines
                         \o previous_content.body,
                     previous_content.topic, <<>>)

\* OpenAIContentGenerator.regenerate_content
regenerate_content(previous_content, backend) ==
    LET r == GenerateTry(backend, previous_content.topic, previous_content.tags) IN
    IF r.ok THEN r
    ELSE PostContent(S_UpdatedArticle \o previous_content.topic,
                     S_HashUpdatedArticle \o previous_content.topic \o S_NewLines
                         \o previous_content.body,
                     previous_content.topic, previous_content.tags)

----------------------------------------------------------------------------
(* infrastructure/database/models.py and                                    *)
(* infrastructure/repositories/sqlalchemy_post_repository.py                *)
(*                                                                         *)
(* The committed database is db_posts, a function from the ids of the rows  *)
(* of table posts to the rows, and db_pubs, the rows of table publications  *)
(* in the order they were inserted.  A text column holding JSON is a        *)
(* sequence of tokens.                                                      *)

TopicColumnLen == 100

JsonOpen == [tok |-> "[", v |-> None]
JsonClose == [tok |-> "]", v |-> None]
JsonComma == [tok |-> ",", v |-> None]
JsonString(v) == [tok |-> "string", v |-> v]

\* json.dumps of a list of strings
json_dumps(tags) ==
    <<JsonOpen>>
    \o [i \in 1..(IF Len(tags) = 0 THEN 0 ELSE 2 * Len(tags) - 1) |->
            IF i % 2 = 1 THEN JsonString(tags[(i + 1) \div 2]) ELSE JsonComma]
    \o <<JsonClose>>

\* the text is a JSON list of strings
JsonWellFormed(text) ==
    /\ Len(text) >= 2
    /\ text[1] = JsonOpen
    /\ text[Len(text)] = JsonClose
    /\ Len(text) = 2 \/ Len(text) % 2 = 1
    /\ \A i \in 2..(Len(text) - 1) :
           IF i % 2 = 0 THEN text[i].tok = "string" ELSE text[i] = JsonComma

\* json.loads(entity.tags) if entity.tags else [], and [] on a JSONDecodeError
json_loads_tags(text) ==
    IF text = <<>> THEN <<>>
    ELSE IF ~JsonWellFormed(text) THEN <<>>
    ELSE [i \in 1..((Len(text) - 1) \div 2) |-> text[2 * i].v]

\* PostEntity with the status column left at its default
PostEntity_DefaultStatus(p) ==
    [id |-> p.id, title |-> p.content.title, body |-> p.content.body,
     topic |-> p.content.topic, tags |-> json_dumps(p.content.tags),
     user_id |-> p.user_id, status |-> DRAFT]

\* the PostEntity that save() builds from a Post
PostEntity(p) ==
    [id |-> p.id, title |-> p.content.title, body |-> p.content.body,
     topic |-> p.content.topic, tags |-> json_dumps(p.content.tags),
     user_id |-> p.user_id, status |-> p.status]

\* the PublicationEntity that save() builds from a PublicationResult
PublicationEntity(post_id, r) ==
    [post_id |-> post_id, platform |-> r.platform, success |-> r.success,
     platform_post_id |-> r.platform_post_id, url |-> r.url,
     error_message |-> r.error_message, published_at |-> r.published_at]

\* the rows of publications that belong to a post, as selectinload reads them
PublicationsOf(pubs, post_id) == SelectSeq(pubs, LAMBDA e : e.post_id = post_id)

\* SqlAlchemyPostRepository._entity_to_domain
_entity_to_domain(entity, pubs) ==
    LET content == PostContent(entity.title, entity.body, entity.topic,
                               json_loads_tags(entity.tags))
        rows == PublicationsOf(pubs, entity.id)
    IN  IF ~content.ok THEN content
        ELSE Ok([id |-> entity.id, content |-> content.val, user_id |-> entity.user_id,
                 status |-> entity.status,
                 publications |->
                     [i \in 1..Len(rows) |->
                         PublicationResult(rows[i].platform, rows[i].success,
                                           rows[i].platform_post_id, rows[i].url,
                                           rows[i].error_message, rows[i].published_at)]])

\* what get_by_id hands back when no row has the id
NoPost == [none |-> TRUE]

\* SqlAlchemyPostRepository.get_by_id
get_by_id(posts, pubs, post_id) ==
    IF post_id \notin DOMAIN posts THEN Ok(NoPost)
    ELSE _entity_to_domain(posts[post_id], pubs)

\* a publisher that answered with a dict instead of a PublicationResult
IsDict(r) == "dict" \in DOMAIN r

\* UpdateEntity with the row rebuilt from the post and no user_id given to it
UpdateEntity_Rebuilt(row, loaded, p) == [PostEntity(p) EXCEPT !.user_id = 0]

\* The columns save() assigns on an entity the session already holds.  The
\* session writes a column in its UPDATE only when the assigned value differs
\* from the one it loaded, so the other columns keep their committed values.
UpdateEntity(row, loaded, p) ==
    LET new == PostEntity(p) IN
    [row EXCEPT !.title = IF new.title # loaded.title THEN new.title ELSE @,
                !.body = IF new.body # loaded.body THEN new.body ELSE @,
                !.topic = IF new.topic # loaded.topic THEN new.topic ELSE @,
                !.tags = IF new.tags # loaded.tags THEN new.tags ELSE @,
                !.status = IF new.status # loaded.status THEN new.status ELSE @]

\* the "Save publications" loop of save() over publications[i..]: a row is added
\* for a publication only when the table, with the rows added so far, holds no
\* row of this post and platform
RECURSIVE SavePublications(_, _, _, _)
SavePublications(pubs, post_id, publications, i) ==
    IF i > Len(publications) THEN Ok(pubs)
    ELSE IF IsDict(publications[i])
    THEN Raise("'dict' object has no attribute 'platform'")
    ELSE IF \E k \in 1..Len(pubs) :
                pubs[k].post_id = post_id /\ pubs[k].platform = publications[i].platform
    THEN SavePublications(pubs, post_id, publications, i + 1)
    ELSE SavePublications(Append(pubs, PublicationEntity(post_id, publications[i])),
                          post_id, publications, i + 1)

\* a value the columns of PostEntity cannot hold makes the INSERT or UPDATE fail
FitsColumns(row) == Len(row.title) <= MaxTitleLen /\ Len(row.topic) <= TopicColumnLen

\* SqlAlchemyPostRepository.save: the database after the commit, or the
\* exception; loaded is the entity the session holds for the id, when it has one
save(posts, pubs, p, loaded) ==
    LET row == IF p.id \in DOMAIN posts
               THEN UpdateEntity(posts[p.id], loaded, p)
               ELSE PostEntity(p)
        saved == SavePublications(pubs, p.id, p.publications, 1)
    IN  IF ~saved.ok THEN saved
        ELSE IF ~FitsColumns(row) THEN Raise("value too long for type character varying")
        ELSE Ok([posts |-> [id \in DOMAIN posts \cup {p.id} |->
                                IF id = p.id THEN row ELSE posts[id]],
                 pubs |-> saved.val])

\* SqlAlchemyPostRepository.delete: the database after the commit and the value
\* returned; the publications of the post go with it (cascade="all, delete-orphan")
delete(posts, pubs, post_id) ==
    IF post_id \notin DOMAIN posts
    THEN [returned |-> FALSE, posts |-> posts, pubs |-> pubs]
    ELSE [returned |-> TRUE,
          posts |-> [id \in DOMAIN posts \ {post_id} |-> posts[id]],
          pubs |-> SelectSeq(pubs, LAMBDA e : e.post_id # post_id)]

----------------------------------------------------------------------------
(* infrastructure/services/platform_publishers.py.  What the HTTP exchange  *)
(* of a publisher comes to is its input http; the publisher answers with    *)
(* [r, request]: r is what publish returned or raised, request is the       *)
(* payload it posted to the platform, if it came to post one.               *)

SuccessResult(platform) == PublicationResult(platform, TRUE, "id", "url", None, "set")
\* a failure that keeps no message
FailureResult_NoMessage(platform, error_message) ==
    PublicationResult(platform, FALSE, None, None, None, None)

FailureResult(platform, error_message) ==
    PublicationResult(platform, FALSE, None, None, error_message, None)

MediumMaxTags == 5
DevToMaxTags == 4

\* tags[:n] with every tag kept
Take_All(tags, n) == tags

\* tags[:n]
Take(tags, n) == SubSeq(tags, 1, IF Len(tags) < n THEN Len(tags) ELSE n)

NoRequest == [sent |-> FALSE, tags |-> <<>>]
Request(tags) == [sent |-> TRUE, tags |-> tags]

\* GET /me fails, or POST .../posts answers 201, answers another status, or the
\* connection breaks
MediumHttp == {"created", "no_user", "rejected", "error"}

\* MediumPublisher.publish
MediumPublisher_publish(title, body, tags, http) ==
    IF http = "no_user"
    THEN [r |-> Ok(FailureResult(MEDIUM, "Failed to get user info")), request |-> NoRequest]
    ELSE LET request == Request(Take(tags, MediumMaxTags)) IN
         IF http = "created" THEN [r |-> Ok(SuccessResult(MEDIUM)), request |-> request]
         ELSE IF http = "rejected"
         THEN [r |-> Ok(FailureResult(MEDIUM, "Failed to publish")), request |-> request]
         ELSE [r |-> Ok(FailureResult(MEDIUM, "error")), request |-> request]

\* POST /articles answers 201, answers another status, or the connection breaks
DevToHttp == {"created", "rejected", "error"}

\* DevToPublisher.publish
DevToPublisher_publish(title, body, tags, http) ==
    LET request == Request(Take(tags, DevToMaxTags)) IN
    IF http = "created" THEN [r |-> Ok(SuccessResult(DEV_TO)), request |-> request]
    ELSE IF http = "rejected"
    THEN [r |-> Ok(FailureResult(DEV_TO, "Failed to publish")), request |-> request]
    ELSE [r |-> Ok(FailureResult(DEV_TO, "error")), request |-> request]

\* the token request is refused, or POST /api/submit answers 200 without
\* errors, 200 with errors, another status, or the connection breaks
RedditHttp == {"created", "no_token", "errors", "rejected", "error"}

\* RedditPublisher._get_access_token
_get_access_token(http) ==
    IF http = "no_token" THEN Raise("Failed to get Reddit access token") ELSE Ok("token")

\* RedditPublisher.publish: the payload holds no tags
RedditPublisher_publish(title, body, tags, http) ==
    LET access_token == _get_access_token(http) IN
    IF ~access_token.ok
    THEN [r |-> Ok(FailureResult(REDDIT, access_token.err)), request |-> NoRequest]
    ELSE IF http = "created"
    THEN [r |-> Ok(SuccessResult(REDDIT)), request |-> Request(<<>>)]
    ELSE IF http = "errors"
    THEN [r |-> Ok(FailureResult(REDDIT, "errors")), request |-> Request(<<>>)]
    ELSE IF http = "rejected"
    THEN [r |-> Ok(FailureResult(REDDIT, "Failed to publish")), request |-> Request(<<>>)]
    ELSE [r |-> Ok(FailureResult(REDDIT, "error")), request |-> Request(<<>>)]

----------------------------------------------------------------------------
(* infrastructure/services/multi_platform_publisher.py *)

\* an api key or a reddit_config that was not given
NoKey == <<>>

\* MultiPlatformPublisher.__init__: the keys of self._publishers
MultiPlatformPublisher_init(medium_api_key, dev_to_api_key, reddit_config) ==
    (IF medium_api_key # NoKey THEN {MEDIUM} ELSE {})
    \cup (IF dev_to_api_key # NoKey THEN {DEV_TO} ELSE {})
    \cup (IF reddit_config # NoKey THEN {REDDIT} ELSE {})

\* a dict, in insertion order: d[key] = value
DictSet(d, key, value) ==
    IF \E i \in 1..Len(d) : d[i].key = key
    THEN [i \in 1..Len(d) |-> IF d[i].key = key THEN [key |-> key, value |-> value] ELSE d[i]]
    ELSE Append(d, [key |-> key, value |-> value])

\* await self._publishers[platform].publish(title=..., body=..., tags=...)
PlatformPublish(platform, content, http) ==
    IF platform = MEDIUM
    THEN MediumPublisher_publish(content.title, content.body, content.tags, http)
    ELSE IF platform = DEV_TO
    THEN DevToPublisher_publish(content.title, content.body, content.tags, http)
    ELSE RedditPublisher_publish(content.title, content.body, content.tags, http)

\* the state of one call of MultiPlatformPublisher.publish: the dict results,
\* the calls of platform publishers made so far, and the exception that left
\* the loop, if one did
NoResults == [results |-> <<>>, calls |-> <<>>, raised |-> None]

\* the loop body with the platform called whether it is configured or not
MultiPublishOne_Unconfigured(publishers, p, platform, http, acc) ==
    LET call == PlatformPublish(platform, p.content, http)
        result == IF call.r.ok THEN call.r.val ELSE FailureResult(platform, call.r.err)
    IN  [acc EXCEPT !.results = DictSet(@, platform, result),
                    !.calls = Append(@, [platform |-> platform, request |-> call.request])]

\* the loop body with a failure raised out of the loop
MultiPublishOne_Reraise(publishers, p, platform, http, acc) ==
    IF platform \notin publishers
    THEN [acc EXCEPT !.results =
              DictSet(@, platform, FailureResult(platform, "Publisher not configured"))]
    ELSE LET call == PlatformPublish(platform, p.content, http)
             result == IF call.r.ok THEN call.r.val
                       ELSE FailureResult(platform, call.r.err)
         IN  [acc EXCEPT !.results = DictSet(@, platform, result),
                         !.calls = Append(@, [platform |-> platform,
                                              request |-> call.request]),
                         !.raised = IF result.success THEN None ELSE result.error_message]

\* one iteration of the loop of MultiPlatformPublisher.publish
MultiPublishOne(publishers, p, platform, http, acc) ==
    IF platform \notin publishers
    THEN [acc EXCEPT !.results =
              DictSet(@, platform, FailureResult(platform, "Publisher not configured"))]
    ELSE LET call == PlatformPublish(platform, p.content, http)
             result == IF call.r.ok THEN call.r.val
                       ELSE FailureResult(platform, call.r.err)
         IN  [acc EXCEPT !.results = DictSet(@, platform, result),
                         !.calls = Append(@, [platform |-> platform,
                                              request |-> call.request])]

\* the loop of MultiPlatformPublisher.publish over platforms[i..]: publishers is
\* the set of keys of _publishers, outcomes[i] is what the HTTP exchange for
\* platforms[i] comes to
RECURSIVE MultiPublishFrom(_, _, _, _, _, _)
MultiPublishFrom(publishers, p, platforms, outcomes, i, acc) ==
    IF i > Len(platforms) \/ acc.raised # None THEN acc
    ELSE MultiPublishFrom(publishers, p, platforms, outcomes, i + 1,
                          MultiPublishOne(publishers, p, platforms[i], outcomes[i], acc))

\* MultiPlatformPublisher.publish(post, platforms)
multi_publish(publishers, p, platforms, outcomes) ==
    MultiPublishFrom(publishers, p, platforms, outcomes, 1, NoResults)

\* the loop with every call started without waiting for the calls in flight
CanStart_NoAwait(in_flight) == TRUE

\* "result = await self._publishers[platform].publish(...)": the coroutine of
\* publish goes on to the next platform only when no call of it is in flight
CanStart(in_flight) == in_flight = {}

\* what "for platform in platforms" iterates over when platforms is one member
\* of the str enum Platform: the characters of its value
PlatformChars(platform) ==
    IF platform = MEDIUM THEN <<"m", "e", "d", "i", "u", "m">>
    ELSE IF platform = DEV_TO THEN <<"d", "e", "v", "_", "t", "o">>
    ELSE <<"r", "e", "d", "d", "i", "t">>

----------------------------------------------------------------------------
(* application/use_cases: one invocation of execute by one task.  The fields *)
(* of an invocation are the command, the locals of execute and pc, the await *)
(* it has reached.  Five fields are kept for the properties only: caller is *)
(* the user whose message invoked the use case, gen_calls and pub_calls     *)
(* count the calls of the generator and list the calls of the publisher,    *)
(* committed says that save() committed, posts0 and pubs0 are the database   *)
(* when execute began.                                                      *)

NoResult == [none |-> TRUE]
NoRow == [none |-> TRUE]

\* CreatePostResult, ConfirmPostResult, RegenerateContentResult, PublishPostResult
UCResult(success, error_message, post_id, content, publication_results) ==
    [success |-> success, error_message |-> error_message, post_id |-> post_id,
     content |-> content, publication_results |-> publication_results]

Failure(error_message) == UCResult(FALSE, error_message, None, NoContent, <<>>)

\* the platform list of a PublishPostCommand that names none
NoPlatforms == <<>>

IdleInvocation ==
    [uc |-> "none", pc |-> "idle", caller |-> 0, post_id |-> None, topic |-> <<>>,
     tags |-> NoTags, platforms |-> NoPlatforms, post |-> NoPost, entity |-> NoRow,
     todo |-> <<>>, publication_results |-> <<>>, new_content |-> NoContent,
     result |-> NoResult, escaped |-> None, gen_calls |-> 0, pub_calls |-> <<>>,
     committed |-> FALSE, posts0 |-> <<>>, pubs0 |-> <<>>]

\* execute returns result
Return(i, result) == [i EXCEPT !.pc = "done", !.result = result]

\* an exception leaves execute
Escape(i, e) == [i EXCEPT !.pc = "done", !.escaped = e]

\* the "except Exception as e" clause of CreatePostUseCase.execute: the failure
\* result holds PostContent("", "", "", [])
CreateExcept(i, e) ==
    LET content == PostContent(<<>>, <<>>, <<>>, <<>>) IN
    IF content.ok THEN Return(i, UCResult(FALSE, e, <<>>, content.val, <<>>))
    ELSE Escape(i, content.err)

\* the "except Exception as e" clause of the other three use cases
Except(i, e) == Return(i, Failure(e))

\* CreateGenerated with the user id of the command left out of the post
CreateGenerated_NoUser(i, new_id, backend) ==
    LET content == generate_content(i.topic, i.tags, backend) IN
    IF ~content.ok THEN CreateExcept([i EXCEPT !.gen_calls = @ + 1], content.err)
    ELSE [i EXCEPT !.gen_calls = @ + 1, !.pc = "save", !.new_content = content.val,
                   !.post = NewPost(new_id, content.val, 0)]

\* CreatePostUseCase.execute up to "await self._post_repository.save(post)": the
\* generator call and Post(id=uuid4(), ...)
CreateGenerated(i, new_id, backend) ==
    LET content == generate_content(i.topic, i.tags, backend) IN
    IF ~content.ok THEN CreateExcept([i EXCEPT !.gen_calls = @ + 1], content.err)
    ELSE [i EXCEPT !.gen_calls = @ + 1, !.pc = "save", !.new_content = content.val,
                   !.post = NewPost(new_id, content.val, i.caller)]

\* CreatePostUseCase.execute from the return of save
CreateSaved(i, saved) ==
    IF ~saved.ok THEN CreateExcept(i, saved.err)
    ELSE Return(i, UCResult(TRUE, None, i.post.id, i.new_content, <<>>))

\* the part of the three use cases that holds a session: from get_by_id to the
\* "Post not found" return; loaded is what get_by_id returned or raised
Loaded(i, loaded, posts) ==
    IF ~loaded.ok THEN Except(i, loaded.err)
    ELSE IF loaded.val = NoPost THEN Return(i, Failure("Post not found"))
    ELSE [i EXCEPT !.post = loaded.val, !.entity = posts[i.post_id]]

\* ConfirmLoaded with what confirm() raises leaving execute
ConfirmLoaded_Reraise(i, loaded, posts) ==
    LET j == Loaded(i, loaded, posts) IN
    IF j.pc = "done" THEN j
    ELSE LET r == confirm(j.post) IN
         IF ~r.ok THEN Escape(j, r.err)
         ELSE [j EXCEPT !.pc = "save", !.post = r.val]

\* ConfirmPostUseCase.execute up to "await repository.save(post)"
ConfirmLoaded(i, loaded, posts) ==
    LET j == Loaded(i, loaded, posts) IN
    IF j.pc = "done" THEN j
    ELSE LET r == confirm(j.post) IN
         IF ~r.ok THEN Except(j, r.err)
         ELSE [j EXCEPT !.pc = "save", !.post = r.val]

\* ConfirmPostUseCase.execute from the return of save
ConfirmSaved(i, saved) ==
    IF ~saved.ok THEN Except(i, saved.err)
    ELSE Return(i, UCResult(TRUE, None, None, NoContent, <<>>))

\* RegenerateLoaded with the status check left out
RegenerateLoaded_Unchecked(i, loaded, posts) ==
    LET j == Loaded(i, loaded, posts) IN
    IF j.pc = "done" THEN j ELSE [j EXCEPT !.pc = "generate"]

\* RegenerateContentUseCase.execute up to the generator call
RegenerateLoaded(i, loaded, posts) ==
    LET j == Loaded(i, loaded, posts) IN
    IF j.pc = "done" THEN j
    ELSE IF j.post.status # DRAFT
    THEN Return(j, Failure("Only draft posts can be regenerated"))
    ELSE [j EXCEPT !.pc = "generate"]

\* RegenerateContentUseCase.execute from the generator call to
\* "await repository.save(post)"
RegenerateGenerated(i, backend) ==
    LET content == regenerate_content(i.post.content, backend)
        j == [i EXCEPT !.gen_calls = @ + 1]
    IN  IF ~content.ok THEN Except(j, content.err)
        ELSE LET r == update_content(j.post, content.val) IN
             IF ~r.ok THEN Except(j, r.err)
             ELSE [j EXCEPT !.pc = "save", !.new_content = content.val, !.post = r.val]

\* RegenerateContentUseCase.execute from the return of save
RegenerateSaved(i, saved) ==
    IF ~saved.ok THEN Except(i, saved.err)
    ELSE Return(i, UCResult(TRUE, None, None, i.new_content, <<>>))

\* command.platforms or [Platform.MEDIUM, Platform.DEV_TO]
PlatformsOrDefault(platforms) ==
    IF platforms # <<>> THEN platforms ELSE <<MEDIUM, DEV_TO>>

\* PublishLoaded with the status check left out
PublishLoaded_Unchecked(i, loaded, posts) ==
    LET j == Loaded(i, loaded, posts) IN
    IF j.pc = "done" THEN j
    ELSE [j EXCEPT !.pc = "publish", !.todo = PlatformsOrDefault(j.platforms)]

\* PublishPostUseCase.execute up to the loop over the platforms
PublishLoaded(i, loaded, posts) ==
    LET j == Loaded(i, loaded, posts) IN
    IF j.pc = "done" THEN j
    ELSE IF j.post.status # CONFIRMED
    THEN Return(j, Failure("Post must be confirmed before publishing"))
    ELSE [j EXCEPT !.pc = "publish", !.todo = PlatformsOrDefault(j.platforms)]

\* What "await self._publisher.publish(post, platform)" does.  A publisher that
\* takes one platform answers with a PublicationResult or raises; the
\* MultiPlatformPublisher of this repository takes the platform for its list of
\* platforms and answers with a dict.
PublisherCall(impl, p, platform, outcome) ==
    IF impl = "multi"
    THEN LET answer == multi_publish(Platform, p, PlatformChars(platform),
                                     [k \in 1..Len(PlatformChars(platform)) |-> outcome])
         IN  IF answer.raised # None THEN Raise(answer.raised)
             ELSE Ok([dict |-> answer.results])
    ELSE IF outcome = "success" THEN Ok(SuccessResult(platform))
    ELSE IF outcome = "failure" THEN Ok(FailureResult(platform, "Failed to publish"))
    ELSE Raise("error")

\* one iteration of the loop of PublishPostUseCase.execute
PublishedOne(i, impl, outcome) ==
    LET platform == Head(i.todo)
        r == PublisherCall(impl, i.post, platform, outcome)
        j == [i EXCEPT !.todo = Tail(@), !.pub_calls = Append(@, platform),
                       !.pc = IF Tail(i.todo) = <<>> THEN "save" ELSE "publish"]
    IN  IF r.ok
        THEN [j EXCEPT !.publication_results = Append(@, r.val),
                       !.post = add_publication_result(j.post, r.val).val]
        ELSE [j EXCEPT !.publication_results = Append(@, FailureResult(platform, r.err))]

\* PublishSaved with success reported whatever the results are
PublishSaved_AlwaysSuccess(i, saved) ==
    IF ~saved.ok THEN Except(i, saved.err)
    ELSE Return(i, UCResult(TRUE, None, None, NoContent, i.publication_results))

\* PublishPostUseCase.execute from the return of save
PublishSaved(i, saved) ==
    IF ~saved.ok THEN Except(i, saved.err)
    ELSE IF SelectSeq(i.publication_results, LAMBDA r : r.success) = <<>>
    THEN Return(i, UCResult(FALSE, "Failed to publish to any platform", None, NoContent,
                            i.publication_results))
    ELSE Return(i, UCResult(TRUE, None, None, NoContent, i.publication_results))

----------------------------------------------------------------------------
(* core/container.py, core/bootstrap.py and                                 *)
(* infrastructure/telegram/bot_handlers.py.  Of a TelegramBotHandlers b the *)
(* model keeps waiting, the set _waiting_for_topic, user_posts, the dict    *)
(* _user_posts, and topics, the coroutines of handle_topic_input that are   *)
(* suspended at their first await, each with its user and its topic.  The   *)
(* messages the handlers send change nothing the handlers read.             *)

\* get_container().resolve(interface).  As configure_dependencies registers
\* it, the factory of CreatePostUseCase passes post_repository_factory to a
\* constructor that has no such parameter; a container that builds the use
\* case with the arguments of its constructor resolves it.
resolve(wiring, interface) ==
    IF wiring = "bootstrap" /\ interface = "CreatePostUseCase"
    THEN Raise("__init__() got an unexpected keyword argument 'post_repository_factory'")
    ELSE Ok(interface)

\* del d[key], for a key d may not hold
DictDel(d, key) == [k \in DOMAIN d \ {key} |-> d[k]]

\* d[key] = value
DictPut(d, key, value) == [k \in DOMAIN d \cup {key} |-> IF k = key THEN value ELSE d[k]]

\* TelegramBotHandlers.is_waiting_for_topic
is_waiting_for_topic(b, user_id) == user_id \in b.waiting

\* TelegramBotHandlers.handle_new_post
handle_new_post(b, user_id) ==
    [b EXCEPT !.waiting = @ \cup {user_id}, !.user_posts = DictDel(@, user_id)]

\* handle_topic_input with the user left in the waiting set
handle_topic_input_KeepsWaiting(b, user_id, text) ==
    LET topic == Strip(text) IN
    IF topic = <<>> THEN b
    ELSE [b EXCEPT !.topics = Append(@, [user_id |-> user_id, topic |-> topic])]

\* TelegramBotHandlers.handle_topic_input up to its first await
handle_topic_input(b, user_id, text) ==
    LET topic == Strip(text) IN
    IF topic = <<>> THEN b
    ELSE [b EXCEPT !.waiting = @ \ {user_id},
                   !.topics = Append(@, [user_id |-> user_id, topic |-> topic])]

\* handle_text_message of api/v1/telegram.py
handle_text_message(b, user_id, text) ==
    IF is_waiting_for_topic(b, user_id) THEN handle_topic_input(b, user_id, text) ELSE b

\* _handle_delete_post with the post deleted from the repository as well
_handle_delete_post_Repository(b, posts, pubs, user_id, post_id) ==
    LET d == delete(posts, pubs, post_id) IN
    [bot |-> [b EXCEPT !.user_posts = DictDel(@, user_id)], posts |-> d.posts,
     pubs |-> d.pubs]

\* TelegramBotHandlers._handle_delete_post: the handlers and the database after it
_handle_delete_post(b, posts, pubs, user_id, post_id) ==
    [bot |-> [b EXCEPT !.user_posts = DictDel(@, user_id)], posts |-> posts, pubs |-> pubs]

----------------------------------------------------------------------------
(* The parts of the state a specification does not use stay at these values *)

NoArg == [none |-> TRUE]

PostIdle ==
    /\ post = NewPost(1, NoContent, 1)
    /\ last = [op |-> "new", arg |-> NoArg, ok |-> TRUE, err |-> None, before |-> post]
    /\ leftDraft = None

GenIdle ==
    gen = [op |-> "none", topic |-> <<>>, tags |-> NoTags, backend |-> BackendError,
           previous |-> NoContent, r |-> Raise(None), n |-> 0]

Tasks == {1, 2}

UCIdle ==
    /\ db_posts = <<>>
    /\ db_pubs = <<>>
    /\ inv = [t \in Tasks |-> IdleInvocation]
    /\ publisher = "platform"
    /\ started = 0

FanIdle ==
    fan = [op |-> "none", publishers |-> {}, post |-> NewPost(1, NoContent, 1),
           platforms |-> <<>>, outcomes |-> <<>>, results |-> <<>>, calls |-> <<>>,
           raised |-> None]

BuiltIdle ==
    built = [op |-> "none", title |-> <<>>, body |-> <<>>, topic |-> <<>>, tags |-> <<>>,
             r |-> Raise(None)]

RepoIdle ==
    repo = [op |-> "none", post |-> NoPost, post_id |-> None, ok |-> TRUE,
            existed |-> FALSE, live |-> {}, deleted |-> {}]

LoopIdle ==
    loop = [publishers |-> {}, post |-> NewPost(1, NoContent, 1), platforms |-> <<>>,
            next |-> 1, in_flight |-> {}, begun |-> <<>>, outcomes |-> <<>>,
            acc |-> NoResults, returned |-> FALSE]

BotIdle ==
    bot = [wiring |-> "bootstrap", waiting |-> {}, user_posts |-> <<>>, topics |-> <<>>,
           new_posts |-> <<>>, creates |-> <<>>, executed |-> <<>>, handled |-> 0,
           update |-> NoArg, deleted |-> {}]

----------------------------------------------------------------------------
(* SpecPost: every sequence of Post operations on one new Draft post *)

MaxPublications == 2

ShortTitles == {<<"a">>, <<"b">>}

\* the PostContent values the operations are applied with
SampleContents ==
    {PostContent(t, <<"x">>, <<"t">>, <<>>).val : t \in ShortTitles}

\* the PublicationResult values a publisher hands back
SampleResults ==
    {PublicationResult(pl, TRUE, "id", "url", None, "set") : pl \in Platform}
    \cup {PublicationResult(pl, FALSE, None, None, "error", None) : pl \in Platform}

PostInit ==
    /\ \E c \in SampleContents : post = NewPost(1, c, 1)
    /\ last = [op |-> "new", arg |-> NoArg, ok |-> TRUE, err |-> None, before |-> post]
    /\ leftDraft = None
    /\ GenIdle
    /\ UCIdle
    /\ FanIdle
    /\ BuiltIdle
    /\ RepoIdle
    /\ LoopIdle
    /\ BotIdle

\* one call of a Post method: r is what the method returned or raised
PostApply(op, arg, r) ==
    /\ post' = IF r.ok THEN r.val ELSE post
    /\ last' = [op |-> op, arg |-> arg, ok |-> r.ok, err |-> r.err, before |-> post]
    /\ leftDraft' = IF post.status = DRAFT /\ post'.status # DRAFT
                     THEN post.content ELSE leftDraft
    /\ UNCHANGED <<genVars, ucVars, fanVars, builtVars, repoVars, loopVars, botVars>>

PostConfirm == PostApply("confirm", NoArg, confirm(post))

PostUpdateContent ==
    \E c \in SampleContents : PostApply("update_content", c, update_content(post, c))

PostAddPublicationResult ==
    /\ Len(post.publications) < MaxPublications
    /\ \E r \in SampleResults :
           PostApply("add_publication_result", r, add_publication_result(post, r))

PostMarkAsPublished == PostApply("mark_as_published", NoArg, mark_as_published(post))

PostMarkAsFailed == PostApply("mark_as_failed", NoArg, mark_as_failed(post, "error"))

PostNext ==
    \/ PostConfirm
    \/ PostUpdateContent
    \/ PostAddPublicationResult
    \/ PostMarkAsPublished
    \/ PostMarkAsFailed

SpecPost == PostInit /\ [][PostNext]_vars

----------------------------------------------------------------------------
(* SpecGen: generate_content on every input, then regenerate_content on what *)
(* it returned *)

MaxTopicLen == 184
MaxRegenerations == 2

\* the empty topic, a blank one, a short one and the longest ones
GenTopics ==
    {Rep("x", n) : n \in {0, 1} \cup ((MaxTopicLen - 4)..MaxTopicLen)} \cup {<<" ">>}

GenTags == {NoTags, SomeTags(<<>>), SomeTags(<<"t1", "t2">>)}

Backends ==
    {BackendError, BackendNone,
     BackendText(S_TitleMarker \o <<" ", "T", "\n", "\n">> \o S_ContentMarker
                 \o <<"\n", "B", "\n">>),
     BackendText(S_TitleMarkerRu \o <<"R", "\n">> \o S_ContentMarkerRu \o <<"\n", "b">>),
     BackendText(<<"h", "i">>),
     BackendText(S_TitleMarker \o Rep("y", MaxTitleLen + 1) \o <<"\n">>
                 \o S_ContentMarker \o <<"\n", "B">>)}

GenInit ==
    /\ \E topic \in GenTopics, tags \in GenTags :
           gen = [op |-> "none", topic |-> topic, tags |-> tags, backend |-> BackendError,
                  previous |-> NoContent, r |-> Raise(None), n |-> 0]
    /\ PostIdle
    /\ UCIdle
    /\ FanIdle
    /\ BuiltIdle
    /\ RepoIdle
    /\ LoopIdle
    /\ BotIdle

GenGenerate ==
    /\ gen.op = "none"
    /\ \E backend \in Backends :
           gen' = [gen EXCEPT !.op = "generate_content", !.backend = backend,
                              !.r = generate_content(gen.topic, gen.tags, backend)]
    /\ UNCHANGED <<postVars, ucVars, fanVars, builtVars, repoVars, loopVars, botVars>>

GenRegenerate ==
    /\ gen.op # "none"
    /\ gen.r.ok
    /\ gen.n < MaxRegenerations
    /\ \E backend \in Backends :
           gen' = [gen EXCEPT !.op = "regenerate_content", !.backend = backend,
                              !.previous = gen.r.val,
                              !.r = regenerate_content(gen.r.val, backend),
                              !.n = gen.n + 1]
    /\ UNCHANGED <<postVars, ucVars, fanVars, builtVars, repoVars, loopVars, botVars>>

GenNext ==
    \/ GenGenerate
    \/ GenRegenerate

SpecGen == GenInit /\ [][GenNext]_vars

\* the validation rules of PostContent.__post_init__
ValidContent(c) ==
    /\ Strip(c.title) # <<>>
    /\ Strip(c.body) # <<>>
    /\ Len(c.title) <= MaxTitleLen

\* the backend failed: the call raised, or its answer could not be used
BackendFailed(backend, topic, tags) == ~GenerateTry(backend, topic, tags).ok

\* C8: for every topic and every backend failure during generate_content the
\* generator raises nothing and returns a PostContent that has the input topic
\* and satisfies the PostContent validation rules.
C8_GenerateFallbackNeverRaises ==
    (gen.op = "generate_content"
        /\ BackendFailed(gen.backend, gen.topic, TagsOrEmpty(gen.tags))) =>
        /\ gen.r.ok
        /\ gen.r.val.topic = gen.topic
        /\ ValidContent(gen.r.val)

----------------------------------------------------------------------------
(* SpecUC: the four use cases, one invocation at a time, on a database that *)
(* starts empty *)

MaxPosts == 2
MaxPlatforms == 2
MaxInvocations == 4

Users == {1, 2}
PostIds == 1..MaxPosts

\* a post_id that is no UUID
BadId == 0
\* the post_id of a command: malformed, the id of a row, or an id of no row
CommandIds == {BadId} \cup 1..(MaxPosts + 1)

\* a topic the fallback title has room for, and the shortest one it has not
UCTopics == {<<"a">>, Rep("x", MaxTitleLen - Len(S_ArticleOnTopic) + 1)}
UCTags == {SomeTags(<<"t1", "t2">>)}
UCBackends ==
    {BackendError,
     BackendText(S_TitleMarker \o <<" ", "T", "\n", "\n">> \o S_ContentMarker
                 \o <<"\n", "B", "\n">>)}

\* the platform lists of a PublishPostCommand
UCPlatforms == {MEDIUM, DEV_TO}
PlatformLists ==
    {NoPlatforms} \cup UNION {[1..n -> UCPlatforms] : n \in 1..MaxPlatforms}

PublisherOutcomes == {"success", "failure", "raise"}

UCInit ==
    /\ db_posts = <<>>
    /\ db_pubs = <<>>
    /\ inv = [t \in Tasks |-> IdleInvocation]
    /\ publisher \in {"platform", "multi"}
    /\ started = 0
    /\ PostIdle
    /\ GenIdle
    /\ FanIdle
    /\ BuiltIdle
    /\ RepoIdle
    /\ LoopIdle
    /\ BotIdle

\* the ids uuid4() can still return: those of no row and of no post in flight
FreshIds ==
    PostIds \ (DOMAIN db_posts \cup {inv[t].post.id : t \in {u \in Tasks : inv[u].uc = "create"
                                                              /\ inv[u].post # NoPost}})

Begin(t, uc, pc) ==
    [IdleInvocation EXCEPT !.uc = uc, !.pc = pc, !.posts0 = db_posts, !.pubs0 = db_pubs]

\* the connection to the database is lost, or the statement is executed
DbCall(dbOk, r) == IF dbOk THEN r ELSE Raise("connection lost")

\* get_by_id(UUID(command.post_id))
LoadCall(dbOk, post_id) ==
    IF post_id = BadId THEN Raise("badly formed hexadecimal UUID string")
    ELSE DbCall(dbOk, get_by_id(db_posts, db_pubs, post_id))

\* repository.save(post) and the commit
SaveCall(dbOk, i) == DbCall(dbOk, save(db_posts, db_pubs, i.post, i.entity))

Commit(saved) ==
    /\ db_posts' = IF saved.ok THEN saved.val.posts ELSE db_posts
    /\ db_pubs' = IF saved.ok THEN saved.val.pubs ELSE db_pubs

StartCreate(t) ==
    /\ inv[t].pc = "idle"
    /\ started < MaxInvocations
    /\ started' = started + 1
    /\ FreshIds # {}
    /\ \E caller \in Users, topic \in UCTopics, tags \in UCTags :
           inv' = [inv EXCEPT ![t] = [Begin(t, "create", "generate") EXCEPT
                                          !.caller = caller, !.topic = topic, !.tags = tags]]
    /\ UNCHANGED <<dbVars, publisher, postVars, genVars, fanVars, builtVars,
                   repoVars, loopVars, botVars>>

CreateGenerate(t) ==
    /\ inv[t].uc = "create" /\ inv[t].pc = "generate"
    /\ \E backend \in UCBackends :
           inv' = [inv EXCEPT ![t] = CreateGenerated(inv[t], Min(FreshIds), backend)]
    /\ UNCHANGED <<dbVars, publisher, started, postVars, genVars, fanVars, builtVars,
                   repoVars, loopVars, botVars>>

CreateSave(t) ==
    /\ inv[t].uc = "create" /\ inv[t].pc = "save"
    /\ \E dbOk \in BOOLEAN :
           LET saved == SaveCall(dbOk, inv[t]) IN
           /\ inv' = [inv EXCEPT ![t] = CreateSaved([inv[t] EXCEPT !.committed = saved.ok], saved)]
           /\ Commit(saved)
    /\ UNCHANGED <<publisher, started, postVars, genVars, fanVars, builtVars,
                   repoVars, loopVars, botVars>>

StartConfirm(t) ==
    /\ inv[t].pc = "idle"
    /\ started < MaxInvocations
    /\ started' = started + 1
    /\ \E caller \in Users, post_id \in CommandIds :
           inv' = [inv EXCEPT ![t] = [Begin(t, "confirm", "load") EXCEPT
                                          !.caller = caller, !.post_id = post_id]]
    /\ UNCHANGED <<dbVars, publisher, postVars, genVars, fanVars, builtVars,
                   repoVars, loopVars, botVars>>

ConfirmLoad(t) ==
    /\ inv[t].uc = "confirm" /\ inv[t].pc = "load"
    /\ \E dbOk \in BOOLEAN :
           inv' = [inv EXCEPT ![t] =
                       ConfirmLoaded(inv[t], LoadCall(dbOk, inv[t].post_id), db_posts)]
    /\ UNCHANGED <<dbVars, publisher, started, postVars, genVars, fanVars, builtVars,
                   repoVars, loopVars, botVars>>

ConfirmSave(t) ==
    /\ inv[t].uc = "confirm" /\ inv[t].pc = "save"
    /\ \E dbOk \in BOOLEAN :
           LET saved == SaveCall(dbOk, inv[t]) IN
           /\ inv' = [inv EXCEPT ![t] = ConfirmSaved([inv[t] EXCEPT !.committed = saved.ok], saved)]
           /\ Commit(saved)
    /\ UNCHANGED <<publisher, started, postVars, genVars, fanVars, builtVars,
                   repoVars, loopVars, botVars>>

StartRegenerate(t) ==
    /\ inv[t].pc = "idle"
    /\ started < MaxInvocations
    /\ started' = started + 1
    /\ \E caller \in Users, post_id \in CommandIds :
           inv' = [inv EXCEPT ![t] = [Begin(t, "regenerate", "load") EXCEPT
                                          !.caller = caller, !.post_id = post_id]]
    /\ UNCHANGED <<dbVars, publisher, postVars, genVars, fanVars, builtVars,
                   repoVars, loopVars, botVars>>

RegenerateLoad(t) ==
    /\ inv[t].uc = "regenerate" /\ inv[t].pc = "load"
    /\ \E dbOk \in BOOLEAN :
           inv' = [inv EXCEPT ![t] =
                       RegenerateLoaded(inv[t], LoadCall(dbOk, inv[t].post_id), db_posts)]
    /\ UNCHANGED <<dbVars, publisher, started, postVars, genVars, fanVars, builtVars,
                   repoVars, loopVars, botVars>>

RegenerateGenerate(t) ==
    /\ inv[t].uc = "regenerate" /\ inv[t].pc = "generate"
    /\ \E backend \in UCBackends :
           inv' = [inv EXCEPT ![t] = RegenerateGenerated(inv[t], backend)]
    /\ UNCHANGED <<dbVars, publisher, started, postVars, genVars, fanVars, builtVars,
                   repoVars, loopVars, botVars>>

RegenerateSave(t) ==
    /\ inv[t].uc = "regenerate" /\ inv[t].pc = "save"
    /\ \E dbOk \in BOOLEAN :
           LET saved == SaveCall(dbOk, inv[t]) IN
           /\ inv' = [inv EXCEPT ![t] = RegenerateSaved([inv[t] EXCEPT !.committed = saved.ok], saved)]
           /\ Commit(saved)
    /\ UNCHANGED <<publisher, started, postVars, genVars, fanVars, builtVars,
                   repoVars, loopVars, botVars>>

StartPublish(t) ==
    /\ inv[t].pc = "idle"
    /\ started < MaxInvocations
    /\ started' = started + 1
    /\ \E post_id \in CommandIds, platforms \in PlatformLists :
           inv' = [inv EXCEPT ![t] = [Begin(t, "publish", "load") EXCEPT
                                          !.post_id = post_id, !.platforms = platforms]]
    /\ UNCHANGED <<dbVars, publisher, postVars, genVars, fanVars, builtVars,
                   repoVars, loopVars, botVars>>

PublishLoad(t) ==
    /\ inv[t].uc = "publish" /\ inv[t].pc = "load"
    /\ \E dbOk \in BOOLEAN :
           inv' = [inv EXCEPT ![t] =
                       PublishLoaded(inv[t], LoadCall(dbOk, inv[t].post_id), db_posts)]
    /\ UNCHANGED <<dbVars, publisher, started, postVars, genVars, fanVars, builtVars,
                   repoVars, loopVars, botVars>>

PublishOne(t) ==
    /\ inv[t].uc = "publish" /\ inv[t].pc = "publish"
    /\ \E outcome \in PublisherOutcomes :
           inv' = [inv EXCEPT ![t] = PublishedOne(inv[t], publisher, outcome)]
    /\ UNCHANGED <<dbVars, publisher, started, postVars, genVars, fanVars, builtVars,
                   repoVars, loopVars, botVars>>

PublishSave(t) ==
    /\ inv[t].uc = "publish" /\ inv[t].pc = "save"
    /\ \E dbOk \in BOOLEAN :
           LET saved == SaveCall(dbOk, inv[t]) IN
           /\ inv' = [inv EXCEPT ![t] = PublishSaved([inv[t] EXCEPT !.committed = saved.ok], saved)]
           /\ Commit(saved)
    /\ UNCHANGED <<publisher, started, postVars, genVars, fanVars, builtVars,
                   repoVars, loopVars, botVars>>

\* the caller has the result (or the exception) of execute
Finish(t) ==
    /\ inv[t].pc = "done"
    /\ inv' = [inv EXCEPT ![t] = IdleInvocation]
    /\ UNCHANGED <<dbVars, publisher, started, postVars, genVars, fanVars, builtVars,
                   repoVars, loopVars, botVars>>

Step(t) ==
    \/ StartCreate(t)
    \/ CreateGenerate(t)
    \/ CreateSave(t)
    \/ StartConfirm(t)
    \/ ConfirmLoad(t)
    \/ ConfirmSave(t)
    \/ StartRegenerate(t)
    \/ RegenerateLoad(t)
    \/ RegenerateGenerate(t)
    \/ RegenerateSave(t)
    \/ StartPublish(t)
    \/ PublishLoad(t)
    \/ PublishOne(t)
    \/ PublishSave(t)
    \/ Finish(t)

\* one task: each execute runs to completion before the next one starts
UCNext == Step(1)

SpecUC == UCInit /\ [][UCNext]_vars

----------------------------------------------------------------------------
(* SpecConc: the use cases in two tasks at once, each with a session of its *)
(* own (AsyncSessionLocal is scoped by asyncio.current_task).  One post is  *)
(* created; ConfirmPost, RegenerateContent and PublishPost are then invoked *)
(* on it, and their steps interleave at every await.                        *)

\* the invocations in flight are a CreatePost on the empty database with no
\* other invocation beside it, or invocations on a post of the database
OnOnePost ==
    \A t \in Tasks :
        /\ inv[t].uc = "create" =>
               /\ inv[t].posts0 = <<>>
               /\ inv[t].topic = <<"a">>
               /\ \A u \in Tasks \ {t} : inv[u].uc = "none"
        /\ inv[t].uc \in {"confirm", "regenerate", "publish"} =>
               /\ inv[t].post_id \in DOMAIN inv[t].posts0
               /\ inv[t].caller \in {0, 1}
               /\ Len(inv[t].platforms) <= 1

ConcInit == UCInit /\ publisher = "platform"

ConcNext == \E t \in Tasks : Step(t) /\ OnOnePost'

SpecConc == ConcInit /\ [][ConcNext]_vars

----------------------------------------------------------------------------
(* SpecFan: one call of MultiPlatformPublisher.publish, for every set of    *)
(* credentials, every list of platforms and every outcome of the HTTP       *)
(* exchanges                                                                *)

MaxFanout == 3
MaxTags == 6

TagNames == <<"t1", "t2", "t3", "t4", "t5", "t6", "t7", "t8">>

\* no tags, and from as many as Dev.to takes to more than Medium takes
FanTags == {SubSeq(TagNames, 1, n) : n \in {0} \cup DevToMaxTags..MaxTags}

Keys == {NoKey, <<"k">>}

FanPlatformLists == UNION {[1..n -> Platform] : n \in 0..MaxFanout}

\* what the HTTP exchange can come to for a platform; there is none for a
\* platform without publisher
HttpOf(publishers, platform) ==
    IF platform \notin publishers THEN {"uncalled"}
    ELSE IF platform = MEDIUM THEN MediumHttp
    ELSE IF platform = DEV_TO THEN DevToHttp
    ELSE RedditHttp

FanInit ==
    /\ \E medium_api_key \in Keys, dev_to_api_key \in Keys, reddit_config \in Keys,
          tags \in FanTags, platforms \in FanPlatformLists :
           fan = [op |-> "none",
                  publishers |-> MultiPlatformPublisher_init(medium_api_key, dev_to_api_key,
                                                             reddit_config),
                  post |-> confirm(NewPost(1, PostContent(<<"T">>, <<"B">>, <<"t">>, tags).val,
                                           1)).val,
                  platforms |-> platforms, outcomes |-> <<>>, results |-> <<>>,
                  calls |-> <<>>, raised |-> None]
    /\ PostIdle
    /\ GenIdle
    /\ UCIdle
    /\ BuiltIdle
    /\ RepoIdle
    /\ LoopIdle
    /\ BotIdle

FanPublish ==
    /\ fan.op = "none"
    /\ \E outcomes \in [1..Len(fan.platforms) ->
                           MediumHttp \cup DevToHttp \cup RedditHttp \cup {"uncalled"}] :
           /\ \A k \in 1..Len(fan.platforms) :
                  outcomes[k] \in HttpOf(fan.publishers, fan.platforms[k])
           /\ LET answer == multi_publish(fan.publishers, fan.post, fan.platforms, outcomes)
              IN  fan' = [fan EXCEPT !.op = "publish", !.outcomes = outcomes,
                                     !.results = answer.results, !.calls = answer.calls,
                                     !.raised = answer.raised]
    /\ UNCHANGED <<postVars, genVars, ucVars, builtVars, repoVars, loopVars, botVars>>

FanNext == FanPublish

SpecFan == FanInit /\ [][FanNext]_vars

----------------------------------------------------------------------------
(* SpecContent: the construction of one PostContent, for titles around the  *)
(* length bound and blank and empty fields                                  *)

MaxTitleInput == 202

LongTopic == Rep("x", TopicColumnLen + 1)

ContentTitles ==
    {Rep("x", n) : n \in {0, 1} \cup (MaxTitleLen - 1)..MaxTitleInput}
    \cup {<<" ">>, <<"\t", "\n">>, <<" ", "a", " ">>}
    \cup {<<" ">> \o Rep("x", n) : n \in (MaxTitleLen - 1)..(MaxTitleInput - 1)}

ContentBodies == {<<>>, <<" ", "\n">>, <<"x">>, Rep("x", MaxTitleInput)}

ContentTopics == {<<>>, <<" ">>, <<"t">>, LongTopic}

ContentTags == {<<>>, <<"">>, SubSeq(TagNames, 1, 6)}

ContentInit ==
    /\ \E title \in ContentTitles, body \in ContentBodies, topic \in ContentTopics,
          tags \in ContentTags :
           built = [op |-> "none", title |-> title, body |-> body, topic |-> topic,
                    tags |-> tags, r |-> Raise(None)]
    /\ PostIdle
    /\ GenIdle
    /\ UCIdle
    /\ FanIdle
    /\ RepoIdle
    /\ LoopIdle
    /\ BotIdle

Construct ==
    /\ built.op = "none"
    /\ built' = [built EXCEPT !.op = "PostContent",
                              !.r = PostContent(built.title, built.body, built.topic,
                                                built.tags)]
    /\ UNCHANGED <<postVars, genVars, ucVars, fanVars, repoVars, loopVars, botVars>>

ContentNext == Construct

SpecContent == ContentInit /\ [][ContentNext]_vars

----------------------------------------------------------------------------
(* SpecRepo: every sequence of save and delete calls on a database that    *)
(* starts empty, each in a session of its own.  A post saved under the id   *)
(* of a row is a post that was loaded from that row and changed by the      *)
(* operations of Post: it has the user_id of the row.                       *)

\* the content, status and publications of the posts handed to save: a new
\* draft, a confirmed post with tags and a title of the greatest length, a
\* published post with a publication, and a post whose topic the column cannot
\* hold
RepoShapes ==
    {[content |-> PostContent(<<"T">>, <<"B">>, <<"t">>, <<>>).val, status |-> DRAFT,
      publications |-> <<>>],
     [content |-> PostContent(Rep("x", MaxTitleLen), <<"B", "\n">>, <<"u">>,
                              <<"t1", "t2">>).val,
      status |-> CONFIRMED, publications |-> <<>>],
     [content |-> PostContent(<<"P">>, <<"b">>, <<"t">>, <<"t1">>).val,
      status |-> PUBLISHED, publications |-> <<SuccessResult(MEDIUM)>>],
     [content |-> PostContent(<<"T">>, <<"B">>, LongTopic, <<>>).val, status |-> FAILED,
      publications |-> <<>>]}

RepoInit ==
    /\ db_posts = <<>>
    /\ db_pubs = <<>>
    /\ inv = [t \in Tasks |-> IdleInvocation]
    /\ publisher = "platform"
    /\ started = 0
    /\ repo = [op |-> "none", post |-> NoPost, post_id |-> None, ok |-> TRUE,
               existed |-> FALSE, live |-> {}, deleted |-> {}]
    /\ PostIdle
    /\ GenIdle
    /\ FanIdle
    /\ BuiltIdle
    /\ LoopIdle
    /\ BotIdle

\* await repository.save(post)
RepoSave ==
    /\ \E id \in PostIds, shape \in RepoShapes :
       \E user_id \in IF id \in DOMAIN db_posts THEN {db_posts[id].user_id} ELSE Users :
           LET p == [id |-> id, content |-> shape.content, user_id |-> user_id,
                     status |-> shape.status, publications |-> shape.publications]
               loaded == IF id \in DOMAIN db_posts THEN db_posts[id] ELSE NoRow
               saved == save(db_posts, db_pubs, p, loaded)
           IN  /\ Commit(saved)
               /\ repo' = [op |-> "save", post |-> p, post_id |-> id, ok |-> saved.ok,
                           existed |-> id \in DOMAIN db_posts,
                           live |-> IF saved.ok THEN repo.live \cup {id} ELSE repo.live,
                           deleted |-> IF saved.ok THEN repo.deleted \ {id}
                                       ELSE repo.deleted]
    /\ UNCHANGED <<inv, publisher, started, postVars, genVars, fanVars, builtVars,
                   loopVars, botVars>>

\* await repository.delete(post_id)
RepoDelete ==
    /\ \E id \in 1..(MaxPosts + 1) :
           LET d == delete(db_posts, db_pubs, id) IN
           /\ db_posts' = d.posts
           /\ db_pubs' = d.pubs
           /\ repo' = [op |-> "delete", post |-> NoPost, post_id |-> id, ok |-> d.returned,
                       existed |-> id \in DOMAIN db_posts,
                       live |-> repo.live \ {id},
                       deleted |-> IF d.returned THEN repo.deleted \cup {id}
                                   ELSE repo.deleted]
    /\ UNCHANGED <<inv, publisher, started, postVars, genVars, fanVars, builtVars,
                   loopVars, botVars>>

RepoNext == RepoSave \/ RepoDelete

SpecRepo == RepoInit /\ [][RepoNext]_vars

----------------------------------------------------------------------------
(* SpecLoop: one call of MultiPlatformPublisher.publish step by step: the   *)
(* start and the return of each call of a platform publisher are steps of   *)
(* their own.  next is the place in platforms the loop has come to,         *)
(* in_flight the places whose call has started and not returned, begun the  *)
(* places in the order their calls started, outcomes what the HTTP          *)
(* exchanges came to in the order the iterations ended.                     *)

LoopInit ==
    /\ \E medium_api_key \in Keys, dev_to_api_key \in Keys, reddit_config \in Keys,
          platforms \in FanPlatformLists :
           loop = [publishers |-> MultiPlatformPublisher_init(medium_api_key,
                                                              dev_to_api_key, reddit_config),
                   post |-> confirm(NewPost(1, PostContent(<<"T">>, <<"B">>, <<"t">>,
                                                           <<"t1">>).val, 1)).val,
                   platforms |-> platforms, next |-> 1, in_flight |-> {}, begun |-> <<>>,
                   outcomes |-> <<>>, acc |-> NoResults, returned |-> FALSE]
    /\ PostIdle
    /\ GenIdle
    /\ UCIdle
    /\ FanIdle
    /\ BuiltIdle
    /\ RepoIdle
    /\ BotIdle

\* an iteration for a platform without publisher: the "continue" branch
LoopSkip ==
    /\ loop.next <= Len(loop.platforms)
    /\ CanStart(loop.in_flight)
    /\ loop.platforms[loop.next] \notin loop.publishers
    /\ loop' = [loop EXCEPT !.next = @ + 1,
                            !.outcomes = Append(@, "uncalled"),
                            !.acc = MultiPublishOne(loop.publishers, loop.post,
                                                    loop.platforms[loop.next], "uncalled", @)]
    /\ UNCHANGED <<postVars, genVars, ucVars, fanVars, builtVars, repoVars, botVars>>

\* the call of the publisher of platforms[next] starts
LoopCall ==
    /\ loop.next <= Len(loop.platforms)
    /\ CanStart(loop.in_flight)
    /\ loop.platforms[loop.next] \in loop.publishers
    /\ loop' = [loop EXCEPT !.next = @ + 1,
                            !.in_flight = @ \cup {loop.next},
                            !.begun = Append(@, loop.next)]
    /\ UNCHANGED <<postVars, genVars, ucVars, fanVars, builtVars, repoVars, botVars>>

\* a call in flight returns its result, or raises and the except clause makes
\* the result
LoopReturn ==
    /\ \E k \in loop.in_flight : \E http \in HttpOf(loop.publishers, loop.platforms[k]) :
           loop' = [loop EXCEPT !.in_flight = @ \ {k},
                                !.outcomes = Append(@, http),
                                !.acc = MultiPublishOne(loop.publishers, loop.post,
                                                        loop.platforms[k], http, @)]
    /\ UNCHANGED <<postVars, genVars, ucVars, fanVars, builtVars, repoVars, botVars>>

\* "return results"
LoopDone ==
    /\ loop.next > Len(loop.platforms)
    /\ loop.in_flight = {}
    /\ ~loop.returned
    /\ loop' = [loop EXCEPT !.returned = TRUE]
    /\ UNCHANGED <<postVars, genVars, ucVars, fanVars, builtVars, repoVars, botVars>>

LoopNext == LoopSkip \/ LoopCall \/ LoopReturn \/ LoopDone

SpecLoop == LoopInit /\ [][LoopNext]_vars

----------------------------------------------------------------------------
(* SpecBot: the updates of two users handled by one TelegramBotHandlers.    *)
(* The handlers of different updates interleave at their awaits; execute of *)
(* a use case is taken as one step, and the database answers the regenerate *)
(* and publish callbacks.  new_posts, creates and executed count,           *)
(* per user, the /new_post commands handled, the handlers of a topic that   *)
(* came to "Create post using use case", and the calls of                   *)
(* CreatePostUseCase.execute; update is the update whose handler made the   *)
(* last step; deleted holds the ids of the rows named by delete callbacks.  *)

MaxUpdates == 5

\* the text of a message that is no command: blank, and a topic
BotTexts == {<<" ">>, <<" ", "a">>}

Update(kind, user_id, post_id, success, before) ==
    [kind |-> kind, user_id |-> user_id, post_id |-> post_id, success |-> success,
     before |-> before]

BotInit ==
    /\ \E wiring \in {"bootstrap", "direct"} :
           /\ bot = [wiring |-> wiring, waiting |-> {}, user_posts |-> <<>>, topics |-> <<>>,
                     new_posts |-> [u \in Users |-> 0], creates |-> [u \in Users |-> 0],
                     executed |-> [u \in Users |-> 0], handled |-> 0,
                     update |-> Update("none", 0, BadId, FALSE, None), deleted |-> {}]
           /\ publisher = IF wiring = "bootstrap" THEN "multi" ELSE "platform"
    /\ db_posts = <<>>
    /\ db_pubs = <<>>
    /\ inv = [t \in Tasks |-> IdleInvocation]
    /\ started = 0
    /\ PostIdle
    /\ GenIdle
    /\ FanIdle
    /\ BuiltIdle
    /\ RepoIdle
    /\ LoopIdle

\* the rest of execute from "await repository.save(post)", when execute came
\* that far: the invocation and the database after it
Saving(i, dbOk, Saved(_, _)) ==
    IF i.pc = "done" THEN [i |-> i, posts |-> db_posts, pubs |-> db_pubs]
    ELSE LET saved == SaveCall(dbOk, i) IN
         [i |-> Saved([i EXCEPT !.committed = saved.ok], saved),
          posts |-> IF saved.ok THEN saved.val.posts ELSE db_posts,
          pubs |-> IF saved.ok THEN saved.val.pubs ELSE db_pubs]

\* await use_case.execute(CreatePostCommand(user_id=user_id, topic=topic))
ExecuteCreate(user_id, topic, backend, dbOk) ==
    Saving(CreateGenerated([Begin(1, "create", "generate") EXCEPT
                                !.caller = user_id, !.topic = topic],
                           Min(FreshIds), backend),
           dbOk, CreateSaved)

\* await use_case.execute(ConfirmPostCommand(post_id=post_id))
ExecuteConfirm(user_id, post_id, dbOk) ==
    Saving(ConfirmLoaded([Begin(1, "confirm", "load") EXCEPT
                              !.caller = user_id, !.post_id = post_id],
                         LoadCall(dbOk, post_id), db_posts),
           dbOk, ConfirmSaved)

\* await use_case.execute(RegenerateContentCommand(post_id=post_id))
ExecuteRegenerate(user_id, post_id, backend, dbOk) ==
    LET i == RegenerateLoaded([Begin(1, "regenerate", "load") EXCEPT
                                   !.caller = user_id, !.post_id = post_id],
                              LoadCall(dbOk, post_id), db_posts)
    IN  Saving(IF i.pc = "done" THEN i ELSE RegenerateGenerated(i, backend),
               dbOk, RegenerateSaved)

\* await use_case.execute(PublishPostCommand(post_id=post_id)): the command
\* names no platforms, the loop runs for the two default ones
ExecutePublish(post_id, impl, first, second, dbOk) ==
    LET i == PublishLoaded([Begin(1, "publish", "load") EXCEPT !.post_id = post_id],
                           LoadCall(dbOk, post_id), db_posts)
    IN  Saving(IF i.pc = "done" THEN i
               ELSE PublishedOne(PublishedOne(i, impl, first), impl, second),
               dbOk, PublishSaved)

\* the post ids a callback is sent with: one that is no UUID, the id of every
\* row, and the first id that no row has
CallbackIds == {post_id \in CommandIds : post_id = BadId \/ post_id <= Len(db_posts) + 1}

\* execute returned a result with success = True
Succeeded(i) == i.escaped = None /\ i.result.success

\* the status of the row a callback names, before the callback is handled
StatusOf(post_id) == IF post_id \in DOMAIN db_posts THEN db_posts[post_id].status ELSE None

\* an update is taken from the dispatcher
Handled(b, update) == [b EXCEPT !.handled = @ + 1, !.update = update]

\* the message "/new_post"
BotNewPost ==
    /\ bot.handled < MaxUpdates
    /\ \E user_id \in Users :
           bot' = Handled([handle_new_post(bot, user_id) EXCEPT !.new_posts[user_id] = @ + 1],
                          Update("new_post", user_id, BadId, TRUE, None))
    /\ UNCHANGED <<ucVars, postVars, genVars, fanVars, builtVars, repoVars, loopVars>>

\* a message that is no command
BotText ==
    /\ bot.handled < MaxUpdates
    /\ \E user_id \in Users, text \in BotTexts :
           bot' = Handled(handle_text_message(bot, user_id, text),
                          Update("text", user_id, BadId, TRUE, None))
    /\ UNCHANGED <<ucVars, postVars, genVars, fanVars, builtVars, repoVars, loopVars>>

\* handle_topic_input from its first await on: resolve, execute, and the
\* post id kept for the user when the result has success = True
BotCreate ==
    /\ \E k \in 1..Len(bot.topics) :
           LET user_id == bot.topics[k].user_id
               use_case == resolve(bot.wiring, "CreatePostUseCase")
               b == [bot EXCEPT !.topics = SubSeq(@, 1, k - 1) \o SubSeq(@, k + 1, Len(@)),
                                !.creates[user_id] = @ + 1]
           IN  IF ~use_case.ok
               THEN /\ bot' = [b EXCEPT !.update = Update("create", user_id, BadId, FALSE,
                                                          None)]
                    /\ UNCHANGED dbVars
               ELSE /\ FreshIds # {}
                    /\ \E backend \in UCBackends, dbOk \in BOOLEAN :
                           LET run == ExecuteCreate(user_id, bot.topics[k].topic, backend,
                                                    dbOk)
                               post_id == IF Succeeded(run.i) THEN run.i.result.post_id
                                          ELSE BadId
                           IN  /\ bot' = [b EXCEPT
                                   !.executed[user_id] = @ + 1,
                                   !.user_posts = IF Succeeded(run.i)
                                                  THEN DictPut(@, user_id, post_id) ELSE @,
                                   !.update = Update("create", user_id, post_id,
                                                     Succeeded(run.i), None)]
                               /\ db_posts' = run.posts
                               /\ db_pubs' = run.pubs
    /\ UNCHANGED <<inv, publisher, started, postVars, genVars, fanVars, builtVars,
                   repoVars, loopVars>>

\* the callback "confirm:<post_id>"
BotConfirm ==
    /\ bot.handled < MaxUpdates
    /\ \E user_id \in Users, post_id \in CallbackIds, dbOk \in BOOLEAN :
           LET run == ExecuteConfirm(user_id, post_id, dbOk) IN
           /\ bot' = Handled(bot, Update("confirm", user_id, post_id, Succeeded(run.i),
                                         IF dbOk THEN StatusOf(post_id) ELSE None))
           /\ db_posts' = run.posts
           /\ db_pubs' = run.pubs
    /\ UNCHANGED <<inv, publisher, started, postVars, genVars, fanVars, builtVars,
                   repoVars, loopVars>>

\* the callback "regenerate:<post_id>"
BotRegenerate ==
    /\ bot.handled < MaxUpdates
    /\ \E user_id \in Users, post_id \in CallbackIds, backend \in UCBackends :
           LET run == ExecuteRegenerate(user_id, post_id, backend, TRUE) IN
           /\ bot' = Handled(bot, Update("regenerate", user_id, post_id, Succeeded(run.i),
                                         StatusOf(post_id)))
           /\ db_posts' = run.posts
           /\ db_pubs' = run.pubs
    /\ UNCHANGED <<inv, publisher, started, postVars, genVars, fanVars, builtVars,
                   repoVars, loopVars>>

\* the callback "publish:<post_id>"
BotPublish ==
    /\ bot.handled < MaxUpdates
    /\ \E user_id \in Users, post_id \in CallbackIds, first \in PublisherOutcomes,
          second \in PublisherOutcomes :
           LET run == ExecutePublish(post_id, publisher, first, second, TRUE) IN
           /\ bot' = Handled(bot, Update("publish", user_id, post_id, Succeeded(run.i),
                                         StatusOf(post_id)))
           /\ db_posts' = run.posts
           /\ db_pubs' = run.pubs
    /\ UNCHANGED <<inv, publisher, started, postVars, genVars, fanVars, builtVars,
                   repoVars, loopVars>>

\* the callback "delete:<post_id>"
BotDelete ==
    /\ bot.handled < MaxUpdates
    /\ \E user_id \in Users, post_id \in CallbackIds :
           LET after == _handle_delete_post(bot, db_posts, db_pubs, user_id, post_id) IN
           /\ bot' = Handled([after.bot EXCEPT
                                  !.deleted = @ \cup ({post_id} \cap DOMAIN db_posts)],
                             Update("delete", user_id, post_id, TRUE, StatusOf(post_id)))
           /\ db_posts' = after.posts
           /\ db_pubs' = after.pubs
    /\ UNCHANGED <<inv, publisher, started, postVars, genVars, fanVars, builtVars,
                   repoVars, loopVars>>

BotNext ==
    \/ BotNewPost
    \/ BotText
    \/ BotCreate
    \/ BotConfirm
    \/ BotRegenerate
    \/ BotPublish
    \/ BotDelete

SpecBot == BotInit /\ [][BotNext]_vars

----------------------------------------------------------------------------
(* Claims about the Post aggregate (SpecPost) *)

\* C1: confirm() succeeds iff the status is Draft and then sets the status to
\* Confirmed; in every other status it raises and leaves the status unchanged.
C1_ConfirmIffDraft ==
    last.op = "confirm" =>
        /\ last.ok <=> last.before.status = DRAFT
        /\ last.ok => post.status = CONFIRMED
        /\ ~last.ok => last.err # None /\ post.status = last.before.status

C1_Witness ==
    /\ last.op = "confirm"
    /\ ~last.ok
    /\ last.before.status = PUBLISHED
    /\ post.status = PUBLISHED

\* C2: update_content(new) succeeds iff the status is Draft; after a success the
\* content is exactly the argument and the status is still Draft; after a failure
\* the content is unchanged; the content of a non-Draft post is the content it
\* had when it left Draft.
C2_UpdateContentIffDraft ==
    /\ last.op = "update_content" =>
           /\ last.ok <=> last.before.status = DRAFT
           /\ last.ok => post.content = last.arg /\ post.status = DRAFT
           /\ ~last.ok => post.content = last.before.content
    /\ post.status # DRAFT => post.content = leftDraft

C2_Witness ==
    /\ last.op = "update_content"
    /\ ~last.ok
    /\ post.status = CONFIRMED
    /\ last.arg # post.content
    /\ post.content = leftDraft

LifecycleStep(from, to) ==
    \/ from = to
    \/ from = DRAFT /\ to = CONFIRMED
    \/ from = CONFIRMED /\ to \in {PUBLISHED, FAILED}

\* C10: over every sequence of Post operations from a new Draft post the status
\* only moves Draft -> Confirmed -> Published or Failed: never backward, never
\* from Draft directly to Published or Failed, never out of Published or Failed.
C10_StatusMonotonic == [][LifecycleStep(post.status, post'.status)]_vars

\* C11: mark_as_failed succeeds only when the status is Confirmed and no recorded
\* publication result is successful; in every other situation it raises and
\* leaves the status unchanged.
C11_MarkAsFailedGuarded ==
    last.op = "mark_as_failed" =>
        /\ last.ok => /\ last.before.status = CONFIRMED
                      /\ get_successful_publications(last.before) = <<>>
        /\ ~last.ok => last.err # None /\ post.status = last.before.status

\* C12: mark_as_published succeeds iff the status is Confirmed and publications
\* holds a successful result, and then sets the status to Published; in every
\* reachable state a Published post has a successful result in publications.
C12_PublishedHasSuccess ==
    /\ last.op = "mark_as_published" =>
           /\ last.ok <=> /\ last.before.status = CONFIRMED
                          /\ get_successful_publications(last.before) # <<>>
           /\ last.ok => post.status = PUBLISHED
           /\ ~last.ok => post = last.before
    /\ post.status = PUBLISHED => \E k \in 1..Len(post.publications) :
                                      post.publications[k].success

\* mark_as_published refuses a Confirmed post all of whose results failed
C12_Witness ==
    /\ last.op = "mark_as_published"
    /\ ~last.ok
    /\ last.before.status = CONFIRMED
    /\ Len(last.before.publications) = MaxPublications
    /\ post.status = CONFIRMED

----------------------------------------------------------------------------
(* Claims about the publish fan-out (SpecFan) *)

\* the value the dict results holds for a platform
ResultFor(platform) ==
    LET k == CHOOSE k \in 1..Len(fan.results) : fan.results[k].key = platform
    IN  fan.results[k].value

HasResult(platform) == \E k \in 1..Len(fan.results) : fan.results[k].key = platform

\* k is the last place of its platform in the request
LastOf(k) == \A j \in (k + 1)..Len(fan.platforms) : fan.platforms[j] # fan.platforms[k]

\* the platforms of the calls of platform publishers, in the order of the calls
Called == [k \in 1..Len(fan.calls) |-> fan.calls[k].platform]

\* C13: for every requested list, duplicates included, the fan-out yields one
\* PublicationResult per list element in request order: as many results as
\* requested platforms, the i-th for the i-th platform.
C13_OneResultPerElement ==
    fan.op = "publish" =>
        /\ Len(fan.results) = Len(fan.platforms)
        /\ \A k \in 1..Len(fan.platforms) :
               k <= Len(fan.results) => fan.results[k].value.platform = fan.platforms[k]

\* C14: a failure of one platform (an exception in its publisher, or for Reddit
\* no OAuth token) becomes a failed PublicationResult of that platform only:
\* nothing is raised, every configured platform of the request is called in
\* request order whatever failed before it, and every platform has a result that
\* tells the outcome of its own (last) call.
C14_FailureIsolated ==
    fan.op = "publish" =>
        /\ fan.raised = None
        /\ Called = SelectSeq(fan.platforms, LAMBDA pl : pl \in fan.publishers)
        /\ \A k \in 1..Len(fan.platforms) :
               /\ HasResult(fan.platforms[k])
               /\ ResultFor(fan.platforms[k]).platform = fan.platforms[k]
               /\ LastOf(k) =>
                      (ResultFor(fan.platforms[k]).success <=> fan.outcomes[k] = "created")
               /\ ~ResultFor(fan.platforms[k]).success =>
                      ResultFor(fan.platforms[k]).error_message # None

\* Reddit gets no token, Medium's connection breaks, Dev.to still publishes
C14_Witness ==
    /\ fan.op = "publish"
    /\ fan.platforms = <<REDDIT, MEDIUM, DEV_TO>>
    /\ fan.outcomes = <<"no_token", "error", "created">>
    /\ ~ResultFor(REDDIT).success
    /\ ~ResultFor(MEDIUM).success
    /\ ResultFor(DEV_TO).success
    /\ Len(fan.calls) = 3

\* C15: a requested platform without configured publisher gets a failed
\* PublicationResult with the "not configured" message, and no platform
\* publisher is called for it.
C15_NotConfigured ==
    fan.op = "publish" =>
        \A k \in 1..Len(fan.platforms) :
            fan.platforms[k] \notin fan.publishers =>
                /\ HasResult(fan.platforms[k])
                /\ ResultFor(fan.platforms[k]) =
                       FailureResult(fan.platforms[k], "Publisher not configured")
                /\ \A c \in 1..Len(fan.calls) : fan.calls[c].platform # fan.platforms[k]

\* Reddit has no credentials: Medium before it and Dev.to after it are called
C15_Witness ==
    /\ fan.op = "publish"
    /\ fan.publishers = {MEDIUM, DEV_TO}
    /\ fan.platforms = <<MEDIUM, REDDIT, DEV_TO>>
    /\ Called = <<MEDIUM, DEV_TO>>
    /\ ~ResultFor(REDDIT).success

\* the first min(limit, n) tags of the post, in their order
FirstTags(limit) ==
    LET tags == fan.post.content.tags
        n == IF Len(tags) < limit THEN Len(tags) ELSE limit
    IN  [i \in 1..n |-> tags[i]]

\* C18: the tags sent to Medium are the first min(5, n) tags and the tags sent
\* to Dev.to the first min(4, n) tags of the post, in their order; the number of
\* tags changes nothing in the outcome: a request is posted and the result is
\* the one the platform's answer decides.
C18_TagsTruncated ==
    fan.op = "publish" =>
        /\ \A c \in 1..Len(fan.calls) :
               LET call == fan.calls[c] IN
               /\ call.platform = MEDIUM /\ call.request.sent =>
                      call.request.tags = FirstTags(5)
               /\ call.platform = DEV_TO =>
                      call.request.sent /\ call.request.tags = FirstTags(4)
        /\ \A k \in 1..Len(fan.platforms) :
               (fan.platforms[k] \in {MEDIUM, DEV_TO} /\ LastOf(k)
                   /\ fan.outcomes[k] = "created") =>
                   ResultFor(fan.platforms[k]).success

\* six tags: Medium is sent five of them, Dev.to four, and both publish
C18_Witness ==
    /\ fan.op = "publish"
    /\ Len(fan.post.content.tags) = 6
    /\ fan.platforms = <<MEDIUM, DEV_TO>>
    /\ Len(fan.calls) = 2
    /\ Len(fan.calls[1].request.tags) = 5
    /\ Len(fan.calls[2].request.tags) = 4
    /\ ResultFor(MEDIUM).success
    /\ ResultFor(DEV_TO).success

----------------------------------------------------------------------------
(* Claims about PostContent (SpecContent) *)

Blank(text) == \A k \in 1..Len(text) : text[k] \in Whitespace

\* C20: constructing a PostContent fails iff the title is blank, the body is
\* blank or the title is longer than 200 characters; a title of exactly 200
\* characters with a body is accepted; topic and tags never make it fail; what
\* is constructed holds the four arguments.
C20_ContentValidation ==
    built.op = "PostContent" =>
        /\ ~built.r.ok <=> \/ Blank(built.title)
                           \/ Blank(built.body)
                           \/ Len(built.title) > 200
        /\ built.r.ok =>
               built.r.val = [title |-> built.title, body |-> built.body,
                              topic |-> built.topic, tags |-> built.tags]

\* a title of exactly 200 characters is accepted, with a topic longer than the
\* topic column and an empty tag list
C20_Witness ==
    /\ built.op = "PostContent"
    /\ Len(built.title) = 200
    /\ built.topic = LongTopic
    /\ built.tags = <<>>
    /\ built.r.ok

----------------------------------------------------------------------------
(* Claims about the use cases (SpecUC) *)

\* execute of use case uc has returned or raised in task t
Done(t, uc) == inv[t].uc = uc /\ inv[t].pc = "done"

\* the invocation found its post
Found(t) == inv[t].entity # NoRow

\* the database is as it was when execute began
DbUntouched(t) == db_posts = inv[t].posts0 /\ db_pubs = inv[t].pubs0

\* the results of the publisher calls that were PublicationResults
Results(t) == SelectSeq(inv[t].publication_results, LAMBDA r : ~IsDict(r))
SomeSucceeded(t) == \E k \in 1..Len(Results(t)) : Results(t)[k].success
SomeFailed(t) == \E k \in 1..Len(Results(t)) : ~Results(t)[k].success

\* the results execute returned are for the requested platforms, in their order
InRequestOrder(t) ==
    LET requested == PlatformsOrDefault(inv[t].platforms)
        returned == inv[t].result.publication_results
    IN  /\ Len(returned) = Len(requested)
        /\ \A k \in 1..Len(requested) :
               ~IsDict(returned[k]) /\ returned[k].platform = requested[k]

\* C3: PublishPost on a Confirmed post where a platform fails and a platform
\* succeeds returns success = true and the results in request order, and the
\* status of the post, in memory and as persisted, is Published afterwards.
C3_PartialSuccessPublishes ==
    \A t \in Tasks :
        (Done(t, "publish") /\ inv[t].committed /\ SomeSucceeded(t) /\ SomeFailed(t)) =>
            /\ inv[t].result.success
            /\ InRequestOrder(t)
            /\ inv[t].post.status = PUBLISHED
            /\ db_posts[inv[t].post_id].status = PUBLISHED

\* C4: PublishPost on a Confirmed post where every requested platform fails
\* returns success = false, and the status of the post, in memory and as
\* persisted, is Failed afterwards.
C4_AllFailedMarksFailed ==
    \A t \in Tasks :
        (Done(t, "publish") /\ inv[t].committed /\ ~SomeSucceeded(t)) =>
            /\ ~inv[t].result.success
            /\ inv[t].post.status = FAILED
            /\ db_posts[inv[t].post_id].status = FAILED

\* C5: PublishPost on a post that is not Confirmed returns a failure with the
\* "must be confirmed" message and no results, calls no publisher, and records
\* no publication result on the post or in storage.
C5_PublishNeedsConfirmed ==
    \A t \in Tasks :
        (Done(t, "publish") /\ Found(t) /\ inv[t].entity.status # CONFIRMED) =>
            /\ inv[t].escaped = None
            /\ inv[t].result = Failure("Post must be confirmed before publishing")
            /\ inv[t].pub_calls = <<>>
            /\ inv[t].post = get_by_id(inv[t].posts0, inv[t].pubs0, inv[t].post_id).val
            /\ DbUntouched(t)

C5_Witness ==
    /\ Done(1, "publish")
    /\ Found(1)
    /\ inv[1].entity.status = DRAFT
    /\ inv[1].platforms = <<MEDIUM, DEV_TO>>
    /\ ~inv[1].result.success

\* C6: RegenerateContent on a post that is not Draft returns a failure with the
\* "only draft posts can be regenerated" message, does not call the generator,
\* and leaves the content of the post, in memory and as persisted, unchanged.
C6_RegenerateNeedsDraft ==
    \A t \in Tasks :
        (Done(t, "regenerate") /\ Found(t) /\ inv[t].entity.status # DRAFT) =>
            /\ inv[t].escaped = None
            /\ inv[t].result = Failure("Only draft posts can be regenerated")
            /\ inv[t].gen_calls = 0
            /\ inv[t].post = get_by_id(inv[t].posts0, inv[t].pubs0, inv[t].post_id).val
            /\ DbUntouched(t)

C6_Witness ==
    /\ Done(1, "regenerate")
    /\ Found(1)
    /\ inv[1].entity.status = CONFIRMED
    /\ ~inv[1].result.success

\* C7: whatever the generator, the repository, the publisher or the domain model
\* raises, execute of each of the four use cases returns a result with
\* success = false and a message; no exception leaves execute.
C7_NoExceptionEscapes ==
    \A t \in Tasks :
        inv[t].pc = "done" =>
            /\ inv[t].escaped = None
            /\ inv[t].result # NoResult
            /\ ~inv[t].result.success => inv[t].result.error_message # None

\* C9: ConfirmPost and RegenerateContent invoked by a user who does not own the
\* post fail (the spec's result is "access denied") and leave the post
\* unchanged.  Stated without the wording of the message: the invocation does
\* not succeed and the database is as it was before.
C9_OwnerOnly ==
    \A t \in Tasks :
        ((Done(t, "confirm") \/ Done(t, "regenerate"))
            /\ Found(t) /\ inv[t].entity.user_id # inv[t].caller) =>
            /\ inv[t].escaped = None => ~inv[t].result.success
            /\ DbUntouched(t)

\* PublishPost found its post, the post was Confirmed, and execute returned
PublishedConfirmed(t) ==
    /\ Done(t, "publish")
    /\ Found(t)
    /\ inv[t].entity.status = CONFIRMED
    /\ inv[t].escaped = None

\* C16: for every PublishPost on a Confirmed post the returned success flag is
\* true iff a per-platform result produced in the invocation has success = true.
C16_SuccessIffAnySucceeded ==
    \A t \in Tasks :
        PublishedConfirmed(t) => (inv[t].result.success <=> SomeSucceeded(t))

\* C16 as amended: when save() has committed, the flag is true iff a result of
\* the invocation succeeded; when execute ended in its exception handler the
\* flag is false whatever the results are.
C16_SuccessIffAnySucceededSaved ==
    \A t \in Tasks :
        PublishedConfirmed(t) =>
            /\ inv[t].committed => (inv[t].result.success <=> SomeSucceeded(t))
            /\ ~inv[t].committed => ~inv[t].result.success

\* the results are saved, one platform failed and one succeeded
C16_Witness ==
    /\ PublishedConfirmed(1)
    /\ inv[1].committed
    /\ SomeSucceeded(1)
    /\ SomeFailed(1)
    /\ inv[1].result.success

\* C17: after PublishPost on a Confirmed post the results appended to the post's
\* publications in the invocation are exactly the results returned to the
\* caller, in their order, the failures made from a raised exception included.
C17_ResultsAppended ==
    \A t \in Tasks :
        (PublishedConfirmed(t) /\ inv[t].committed) =>
            inv[t].post.publications =
                get_by_id(inv[t].posts0, inv[t].pubs0, inv[t].post_id).val.publications
                \o inv[t].result.publication_results

\* C19: a successful CreatePost has stored exactly one new row, under an id no
\* row had before, with status Draft, the user id of the command, the content
\* it returns (which has the topic of the command) and no publications; it
\* returns that id; every other row is as it was.
C19_CreatePersistsDraft ==
    \A t \in Tasks :
        (Done(t, "create") /\ inv[t].escaped = None /\ inv[t].result.success) =>
            LET id == inv[t].result.post_id IN
            /\ id \notin DOMAIN inv[t].posts0
            /\ DOMAIN db_posts = DOMAIN inv[t].posts0 \cup {id}
            /\ \A other \in DOMAIN inv[t].posts0 : db_posts[other] = inv[t].posts0[other]
            /\ db_pubs = inv[t].pubs0
            /\ db_posts[id].status = DRAFT
            /\ db_posts[id].user_id = inv[t].caller
            /\ get_by_id(db_posts, db_pubs, id) =
                   Ok(NewPost(id, inv[t].result.content, inv[t].caller))
            /\ inv[t].result.content.topic = inv[t].topic

\* the second post of the database is created, by another user than the first
C19_Witness ==
    /\ Done(1, "create")
    /\ inv[1].result # NoResult
    /\ inv[1].result.success
    /\ Cardinality(DOMAIN inv[1].posts0) = 1
    /\ Cardinality(DOMAIN db_posts) = 2
    /\ \E other \in DOMAIN inv[1].posts0 : db_posts[other].user_id # inv[1].caller

\* the publication history get_by_id returns for the post of invocation t
PersistedHistory(t) == get_by_id(db_posts, db_pubs, inv[t].post_id).val.publications

\* the history the post of invocation t had when execute began
HistoryBefore(t) ==
    get_by_id(inv[t].posts0, inv[t].pubs0, inv[t].post_id).val.publications

\* C21: the publication history is append-only with one entry per publish
\* attempt per platform: after a PublishPost whose save committed, the history
\* of the Post begins with the history it had before, and the history that
\* get_by_id returns is the history of the Post, an entry for a platform that
\* was attempted before included.
C21_HistoryAppendOnly ==
    \A t \in Tasks :
        (PublishedConfirmed(t) /\ inv[t].committed) =>
            /\ Len(inv[t].post.publications) >= Len(HistoryBefore(t))
            /\ SubSeq(inv[t].post.publications, 1, Len(HistoryBefore(t))) = HistoryBefore(t)
            /\ PersistedHistory(t) = inv[t].post.publications

\* the post an invocation holds has the id and the user_id of the row it was
\* loaded from, or of the command that creates it
IdentityKept(t) ==
    /\ (inv[t].post # NoPost /\ Found(t)) =>
           /\ inv[t].post.id = inv[t].entity.id
           /\ inv[t].post.user_id = inv[t].entity.user_id
    /\ (inv[t].post # NoPost /\ inv[t].uc = "create") => inv[t].post.user_id = inv[t].caller

\* every row stays, under its id and with its user_id
RowsKeepIdentity ==
    \A id \in DOMAIN db_posts :
        /\ id \in DOMAIN db_posts'
        /\ db_posts'[id].id = id
        /\ db_posts'[id].user_id = db_posts[id].user_id

\* C22: no Post operation and no use case changes the id or the user_id of a
\* post after its creation: the post an invocation works on keeps the id and
\* user_id it was loaded with, and no step changes the id or user_id of a
\* stored row.
C22_IdentityImmutable ==
    /\ [](\A t \in Tasks : IdentityKept(t))
    /\ [][RowsKeepIdentity]_vars

\* a user who is not the owner has confirmed a post and the row is saved
C22_Witness ==
    /\ Done(1, "confirm")
    /\ inv[1].committed
    /\ db_posts[inv[1].post_id].status = CONFIRMED
    /\ db_posts[inv[1].post_id].user_id # inv[1].caller

\* get_by_id of invocation t was executed and found no row
NotFound(t) ==
    /\ inv[t].post_id # BadId
    /\ inv[t].post_id \notin DOMAIN inv[t].posts0
    /\ ~(inv[t].result # NoResult /\ inv[t].result.error_message = "connection lost")

\* C24: ConfirmPost on an id of no post returns the failure "Post not found";
\* ConfirmPost on a post that is not Draft returns a failure with the message
\* of the guard of confirm() and raises nothing; in both cases the database is
\* as it was before, the status of every post included.
C24_ConfirmFailures ==
    \A t \in Tasks :
        /\ (Done(t, "confirm") /\ NotFound(t)) =>
               /\ inv[t].escaped = None
               /\ inv[t].result = Failure("Post not found")
               /\ DbUntouched(t)
        /\ (Done(t, "confirm") /\ Found(t) /\ inv[t].entity.status # DRAFT) =>
               /\ inv[t].escaped = None
               /\ inv[t].result = Failure("Only draft posts can be confirmed")
               /\ ~inv[t].committed
               /\ DbUntouched(t)
               /\ \A id \in DOMAIN db_posts : db_posts[id].status = inv[t].posts0[id].status

\* a Confirmed post is confirmed again, after a confirm of an unknown id
C24_Witness ==
    /\ Done(1, "confirm")
    /\ Found(1)
    /\ inv[1].entity.status = CONFIRMED
    /\ inv[1].result = Failure("Only draft posts can be confirmed")
    /\ db_posts[inv[1].post_id].status = CONFIRMED

\* the content RegenerateContent has generated in invocation t has the topic
\* and the tags of the post it loaded
RegeneratedKeepsTopic(t) ==
    (inv[t].uc = "regenerate" /\ inv[t].new_content # NoContent) =>
        /\ inv[t].new_content.topic = inv[t].entity.topic
        /\ inv[t].new_content.tags = json_loads_tags(inv[t].entity.tags)
        /\ inv[t].post.content = inv[t].new_content

\* every row keeps its topic and its tags
RowsKeepTopic ==
    \A id \in DOMAIN db_posts :
        /\ id \in DOMAIN db_posts'
        /\ db_posts'[id].topic = db_posts[id].topic
        /\ db_posts'[id].tags = db_posts[id].tags

\* C29: the content regenerate_content returns, from the backend or from the
\* fallback, has the topic and tags of the previous content; hence after any
\* number of RegenerateContent calls the topic and tags of a stored post are
\* those it was created with.
C29_RegenerateKeepsTopic ==
    /\ [](\A t \in Tasks : RegeneratedKeepsTopic(t))
    /\ [][RowsKeepTopic]_vars

\* a post regenerated by the fallback before is regenerated and saved again
C29_Witness ==
    /\ Done(1, "regenerate")
    /\ inv[1].committed
    /\ inv[1].result.success
    /\ StartsWith(inv[1].entity.title, S_UpdatedArticle)
    /\ db_posts[inv[1].post_id].body # inv[1].entity.body
    /\ json_loads_tags(db_posts[inv[1].post_id].tags) # <<>>

----------------------------------------------------------------------------
(* Claims about the results of the publishers (SpecFan) *)

\* a PublicationResult holds the fields of its outcome and no others
WellFormed(r) ==
    /\ r.success =>
           /\ r.platform_post_id # None
           /\ r.url # None
           /\ r.published_at # None
           /\ r.error_message = None
    /\ ~r.success =>
           /\ r.error_message # None
           /\ r.platform_post_id = None
           /\ r.url = None
           /\ r.published_at = None

\* C25: every PublicationResult a platform publisher returns, and every one the
\* fan-out holds in its answer, is well formed (on success the platform post
\* id, the url and the publication time and no error message; on failure an
\* error message and none of the others) and names the requested platform.
C25_ResultsWellFormed ==
    /\ \A platform \in Platform : \A http \in HttpOf(Platform, platform) :
           LET r == PlatformPublish(platform, fan.post.content, http).r IN
           r.ok /\ WellFormed(r.val) /\ r.val.platform = platform
    /\ fan.op = "publish" =>
           \A k \in 1..Len(fan.results) :
               /\ WellFormed(fan.results[k].value)
               /\ fan.results[k].value.platform = fan.results[k].key
               /\ \E n \in 1..Len(fan.platforms) : fan.platforms[n] = fan.results[k].key

\* the answer holds a success, a failure of a called platform and the failure
\* of a platform without publisher
C25_Witness ==
    /\ fan.op = "publish"
    /\ \E k \in 1..Len(fan.results) : fan.results[k].value.success
    /\ \E k \in 1..Len(fan.results) :
           /\ ~fan.results[k].value.success
           /\ fan.results[k].key \in fan.publishers
    /\ \E k \in 1..Len(fan.results) : fan.results[k].key \notin fan.publishers

----------------------------------------------------------------------------
(* Claims about the repository (SpecRepo) *)

----------------------------------------------------------------------------
(* Claims about the order of the platform calls (SpecLoop) *)

\* C23: within one fan-out the platform calls are sequential in request order:
\* at most one call is in flight, it is the call of the platform the loop came
\* to last, the calls started in the order of the request, and what the
\* fan-out returns is what the loop run in request order yields.
C23_CallsSequential ==
    /\ Cardinality(loop.in_flight) <= 1
    /\ \A k \in loop.in_flight : k = loop.next - 1
    /\ \A a, b \in 1..Len(loop.begun) : a < b => loop.begun[a] < loop.begun[b]
    /\ loop.returned =>
           loop.acc = multi_publish(loop.publishers, loop.post, loop.platforms,
                                    loop.outcomes)

\* the call of the third platform is in flight after the call of the first
\* failed and the second had no publisher
C23_Witness ==
    /\ loop.in_flight = {3}
    /\ loop.begun = <<1, 3>>
    /\ Len(loop.acc.results) >= 1
    /\ ~loop.acc.results[1].value.success
    /\ loop.platforms[2] \notin loop.publishers

----------------------------------------------------------------------------
(* Claims about concurrent invocations (SpecConc) *)

\* the place of a status in the lifecycle
StatusRank(status) == IF status = DRAFT THEN 0 ELSE IF status = CONFIRMED THEN 1 ELSE 2

\* C26: under every interleaving of ConfirmPost, RegenerateContent and
\* PublishPost on one post, no commit moves the persisted status of the post
\* backward, and no commit changes its persisted content once its persisted
\* status is no longer Draft.
C26_NoLostUpdate ==
    [][\A id \in DOMAIN db_posts :
           /\ id \in DOMAIN db_posts'
           /\ StatusRank(db_posts'[id].status) >= StatusRank(db_posts[id].status)
           /\ db_posts[id].status # DRAFT =>
                  /\ db_posts'[id].title = db_posts[id].title
                  /\ db_posts'[id].body = db_posts[id].body
                  /\ db_posts'[id].topic = db_posts[id].topic
                  /\ db_posts'[id].tags = db_posts[id].tags]_vars

----------------------------------------------------------------------------
(* Claims about the bot handlers (SpecBot) *)

\* the handlers of a topic of the user that have not come to CreatePost yet
Pending(b, user_id) ==
    Cardinality({k \in 1..Len(b.topics) : b.topics[k].user_id = user_id})

\* the session state the handlers keep for a user
SessionOf(b, user_id) ==
    [waiting |-> user_id \in b.waiting,
     post |-> IF user_id \in DOMAIN b.user_posts THEN <<b.user_posts[user_id]>> ELSE <<>>]

\* what a step of the handlers may do to the session state of a user
TopicStep(user_id) ==
    \* the user enters the waiting set only by a /new_post of their own
    /\ (user_id \in bot'.waiting /\ user_id \notin bot.waiting) =>
           bot'.update = Update("new_post", user_id, BadId, TRUE, None)
    \* a handler of a topic starts only for a text of a user in the waiting
    \* set, and the user has left the set when it starts
    /\ Pending(bot', user_id) > Pending(bot, user_id) =>
           /\ bot'.update = Update("text", user_id, BadId, TRUE, None)
           /\ user_id \in bot.waiting
           /\ user_id \notin bot'.waiting
    \* CreatePost is reached, and executed, only by a handler that started so
    /\ bot'.creates[user_id] > bot.creates[user_id] =>
           /\ Pending(bot', user_id) = Pending(bot, user_id) - 1
           /\ bot'.creates[user_id] = bot.creates[user_id] + 1
    /\ bot'.executed[user_id] > bot.executed[user_id] =>
           bot'.creates[user_id] > bot.creates[user_id]
    \* the session state of a user changes only in the handler of an update of
    \* that user
    /\ SessionOf(bot', user_id) # SessionOf(bot, user_id) => bot'.update.user_id = user_id

\* C27: a text message leads to CreatePost only for a user in the waiting
\* set, which the user enters only by /new_post; the user has left the set
\* before CreatePost runs; the /new_post commands of a user are at least as
\* many as the CreatePost calls made and to come for that user; and an update
\* of one user changes neither the waiting flag nor the stored post id of
\* another.
C27_TopicOnlyWhenWaiting ==
    /\ [](\A user_id \in Users :
              /\ bot.executed[user_id] <= bot.creates[user_id]
              /\ bot.creates[user_id] + Pending(bot, user_id)
                     + (IF user_id \in bot.waiting THEN 1 ELSE 0)
                 <= bot.new_posts[user_id])
    /\ [][\A user_id \in Users : TopicStep(user_id)]_vars

\* CreatePost has run for the topic of a user, who sent a second text after
\* it, while the other user is waiting for a topic
C27_Witness ==
    \E user_id \in Users :
        /\ bot.executed[user_id] = 1
        /\ bot.new_posts[user_id] = 1
        /\ user_id \in DOMAIN bot.user_posts
        /\ bot.update.kind = "text"
        /\ bot.update.user_id = user_id
        /\ bot.waiting = Users \ {user_id}

\* C28: the callback delete:<id> removes the stored post id of the calling
\* user and changes nothing else: not the waiting set, not the stored post id
\* of another user, no row of posts or publications.  The row it names stays:
\* a later confirm or regenerate callback for it succeeds exactly when the row
\* is Draft, and a later publish callback succeeds only on a Confirmed row.
C28_DeleteOnlyForgets ==
    /\ [][(bot'.handled = bot.handled + 1 /\ bot'.update.kind = "delete") =>
              /\ db_posts' = db_posts
              /\ db_pubs' = db_pubs
              /\ bot'.waiting = bot.waiting
              /\ bot'.topics = bot.topics
              /\ bot'.update.user_id \notin DOMAIN bot'.user_posts
              /\ \A user_id \in Users \ {bot'.update.user_id} :
                     SessionOf(bot', user_id) = SessionOf(bot, user_id)]_vars
    /\ [](\A post_id \in bot.deleted :
              /\ post_id \in DOMAIN db_posts
              /\ get_by_id(db_posts, db_pubs, post_id).val # NoPost)
    /\ []((bot.update.kind = "confirm" /\ bot.update.post_id \in bot.deleted
              /\ bot.update.before # None) =>
              (bot.update.success <=> bot.update.before = DRAFT))
    /\ []((bot.update.kind = "regenerate" /\ bot.update.post_id \in bot.deleted) =>
              (bot.update.success <=> bot.update.before = DRAFT))
    /\ []((bot.update.kind = "publish" /\ bot.update.post_id \in bot.deleted
              /\ bot.update.success) =>
              bot.update.before = CONFIRMED)

\* a post whose delete callback was handled has been confirmed by its id
C28_Witness ==
    /\ bot.update.kind = "confirm"
    /\ bot.update.post_id \in bot.deleted
    /\ bot.update.success
    /\ db_posts[bot.update.post_id].status = CONFIRMED
    /\ bot.update.user_id \notin DOMAIN bot.user_posts

====
